---- MODULE Spec2Model ----
(***************************************************************************)
(* KDiff3 word-wrap engine (DiffTextWindow::recalcWordWrap,                *)
(* recalcWordWrapHelper, RecalcWordWrapRunnable, startRunnables) together  *)
(* with the cancellation flag of ProgressDialog.                           *)
(*                                                                         *)
(* The diff windows share one alignment table (Diff3LineVector); each      *)
(* window owns its text, its wrap-line cache and its wrap-line vector.     *)
(* Measuring runs on pool threads, one RecalcWordWrapRunnable per chunk    *)
(* of rows and window; materializing runs on the GUI thread.               *)
(***************************************************************************)
EXTENDS Integers, Sequences, FiniteSets, TLC

\* ---- bounds of the model ----
NumWindows == 2
NumRows == 2
MaxTextLen == 3
MaxWidth == 2
MaxLinesPerRunnable == 3
MaxThreads == 2
MaxRuns == 2
MaxRunLen == 3
MaxSteps == 7
MaxLineSize == 5
MaxHigh == 2
MaxLineRefOps == 3
MaxDiffs == 2
MaxDiffLen == 2
MaxLine == 4
MaxVisibleLines == 6
MaxProgressLevels == 2
MaxProgressCurrent == 2
NumWidthRows == 3
MaxMaximumWidth == 2

Windows == 1..NumWindows
Rows == 0..(NumRows - 1)
Widths == 1..MaxWidth
\* Text lengths: from 2 characters on a text wraps at width 1, and every line
\* of its layout has a length, unlike a filler entry.
TextLens == 2..MaxTextLen
\* Lines and positions the conversions are asked about, also beyond the tables.
QueryLines == 0..(NumRows * MaxTextLen + 2)
QueryPositions == 0..MaxTextLen

VARIABLES
    lineLen,                 \* [window][row] length of the row's text in the window's file
    s_linesPerRunnable,      \* rows per measuring chunk
    linesNeededForDisplay,   \* [row] Diff3Line::linesNeededForDisplay, shared by the windows
    sumLinesNeededForDisplay,\* [row] Diff3Line::sumLinesNeededForDisplay: first visual line of the row
    m_bWordWrap,             \* [window]
    m_wrapLineCacheList,     \* [window] list of cache slices, one per chunk
    m_diff3WrapLineVector,   \* [window] the WrapLineTable
    s_runnables,             \* static list of queued runnables
    s_runnableCount,         \* QAtomicInt
    s_maxNofRunnables,       \* QAtomicInt
    runnable,                \* [runnable id] position and locals of each RecalcWordWrapRunnable
    m_bWasCancelled,         \* ProgressDialog::m_bWasCancelled
    m_current,               \* argument of the latest ProgressDialog::setCurrent call
    phase,                   \* position of the GUI thread in the recalculation
    visibleTextWidth,        \* width of the current recalculation
    nextWin,                 \* next window the GUI thread calls recalcWordWrap on
    wrapLineVectorSize,      \* sum of linesNeededForDisplay handed to materializing mode
    lndAtStart,              \* history: linesNeededForDisplay when the batch was started
    finishCount,             \* history: finishRecalcWordWrap emissions of the batch
    matResult,               \* history: [window] how the last materializing call ended, the rows
                             \*   it went through, whether its size was the sum over the rows
    assertFailed,            \* history: assert(wrapLineVectorSize == 0) was violated
    oobRead,                 \* history: the cache cursor was dereferenced outside its slice
    lineInFile,              \* [window][row] Diff3Line::getLineA/B/C: the row's line in the window's file
    lineQuery,               \* the latest convertLineOnScreenToLineInSource call and what it returned
    selectionWindow,         \* the window whose selection is followed
    m_selection,             \* its Selection: firstLine, firstPos, lastLine, lastPos
    m_bSelectionInProgress,  \* the left button is held since the press that set the selection
    selectionSpace,          \* the coordinates m_selection is in: "wrapped" or "d3l"
    selectionBefore,         \* history: the selection when convertSelectionToD3LCoords was called
    pDiffList1,              \* Merger: the first diff list
    pDiffList2,              \* Merger: the second diff list
    md1,                     \* Merger::md1: cursor into the first diff list
    md2,                     \* Merger::md2: cursor into the second diff list
    nextCalls,               \* history: number of Merger::next calls
    charChanged,             \* writeLine: the classification of the line's characters
    scan_i,                  \* writeLine: the index i of its classification loop
    wroteOutside,            \* history: the loop wrote charChanged outside 0..size-1
    mLineNumber,             \* LineRef: the stored line number
    lineRefOp,               \* history: the last LineRef operation, its operand and result
    nLineRefOps,             \* history: operations on the LineRef since its construction
    pDiffListAB,             \* the line diffs of files A and B the table is built from
    d3ll,                    \* the alignment table built so far
    alignCursor,            \* the builder's position: diffs taken, rest of the current diff, next lines of A and B
    bestFirstLine,          \* the latest call of getBestFirstLine: its arguments and its result
    m_progressStack,         \* ProgressDialog: m_current of each level of the progress stack
    progressOp,              \* history: the last ProgressDialog operation and what it returned
    cancelPending,          \* history: cancel() was called, and since then neither clearCancelState() nor push() on an empty stack
    m_maxTextWidth,          \* QAtomicInt of a window that does not wrap: the widest text measured, -1 before
    maximumWidth,            \* [row] textLayout.maximumWidth() of the row's text in that window
    widthWorker,             \* [chunk] position and locals of the window's runnable for the chunk
    widthPhase              \* position of the GUI thread in the recalculation without word wrap

wrapVars == <<lineLen, s_linesPerRunnable, linesNeededForDisplay,
          sumLinesNeededForDisplay, m_bWordWrap,
          m_wrapLineCacheList, m_diff3WrapLineVector, s_runnables,
          s_runnableCount, s_maxNofRunnables, runnable, m_bWasCancelled,
          m_current, phase, visibleTextWidth, nextWin, wrapLineVectorSize,
          lndAtStart, finishCount, matResult, assertFailed, oobRead>>
mapperVars == <<lineInFile, lineQuery>>
selectionVars == <<selectionWindow, m_selection, m_bSelectionInProgress,
                   selectionSpace, selectionBefore>>
mergerVars == <<pDiffList1, pDiffList2, md1, md2, nextCalls>>
scanVars == <<charChanged, scan_i, wroteOutside>>
lineRefVars == <<mLineNumber, lineRefOp, nLineRefOps>>
alignVars == <<pDiffListAB, d3ll, alignCursor>>
bestFirstLineVars == <<bestFirstLine>>
progressVars == <<m_progressStack, progressOp, cancelPending>>
maxWidthVars == <<m_maxTextWidth, maximumWidth, widthWorker, widthPhase>>
vars == <<wrapVars, mapperVars, selectionVars, mergerVars, scanVars, lineRefVars,
          alignVars, bestFirstLineVars, progressVars, maxWidthVars>>

\* ---- helpers ----
Min(a, b) == IF a < b THEN a ELSE b

RECURSIVE SumTo(_, _)
SumTo(f, n) == IF n < 0 THEN 0 ELSE f[n] + SumTo(f, n - 1)

RECURSIVE Flatten(_)
Flatten(ss) == IF ss = <<>> THEN <<>> ELSE Head(ss) \o Flatten(Tail(ss))

\* Variant of the loop: a last chunk shorter than s_linesPerRunnable gets no
\* runnable.
NofChunks_RoundsDown == NumRows \div s_linesPerRunnable

\* Number of chunks recalcWordWrap queues for one window.
NofChunks == (NumRows + s_linesPerRunnable - 1) \div s_linesPerRunnable
MaxChunks == NumRows
RunnableIds == Windows \X (0..(MaxChunks - 1))

\* Diff3Line::linesNeededForDisplay of a fresh row.
InitialLinesNeeded == 1

\* WrapLineCacheData(d3LineIdx, textStart, textLength)
WrapLineCacheData(d3LineIdx, textStart, textLength) ==
    [d3LineIdx |-> d3LineIdx, textStart |-> textStart, textLength |-> textLength]

\* A default constructed Diff3WrapLine (pD3L = -1 stands for nullptr).
DefaultDiff3WrapLine ==
    [diff3LineIndex |-> 0, pD3L |-> -1, wrapLineOffset |-> 0, wrapLineLength |-> 0]

\* The text lines QTextLayout produces for a text of len characters laid
\* out by prepareTextLayout at the given width: one line for an empty text,
\* otherwise consecutive spans of at most width characters.
LineCount(len, width) == IF len = 0 THEN 1 ELSE (len + width - 1) \div width
TextLayout(len, width) ==
    [l \in 1..LineCount(len, width) |->
        [textStart |-> (l - 1) * width,
         textLength |-> Min(width, len - (l - 1) * width)]]

\* LineRef::invalid
invalid == -1

\* No convertLineOnScreenToLineInSource call was made.
NoLineQuery == [w |-> 0, lineOnScreen |-> 0, coordType |-> "none",
                bFirstLine |-> FALSE, result |-> invalid]

\* ---- Merger ----
\* ChangeFlags
NoChange == 0
AChanged == 1
BChanged == 2

\* A diff list: a null pointer, or runs of equal or changed characters.
DiffRuns == [kind : {"equal", "changed"}, len : 1..MaxRunLen]
NullDiffList == [null |-> TRUE, runs |-> <<>>]
DiffLists ==
    {NullDiffList} \cup
    {[null |-> FALSE, runs |-> rs] : rs \in UNION {[1..n -> DiffRuns] : n \in 0..MaxRuns}}

\* The remaining length of run number run of the list, 0 past the last run.
RunLength(p, run) == IF run <= Len(p.runs) THEN p.runs[run].len ELSE 0

\* Merger::MergeData::MergeData: the cursor is at the first character of the
\* first run.
MergeData(p) == [run |-> 1, left |-> RunLength(p, 1)]

\* Variant: a cursor past its last run keeps the kind of the last run.
eq_LastRunPersists(p, md) ==
    \/ p.null
    \/ Len(p.runs) = 0
    \/ p.runs[IF md.run > Len(p.runs) THEN Len(p.runs) ELSE md.run].kind = "equal"

\* Merger::MergeData::eq: the cursor is not in a changed run.
eq(p, md) ==
    \/ p.null
    \/ md.run > Len(p.runs)
    \/ p.runs[md.run].kind = "equal"

\* Variant: the cursor of a null list counts as at its end.
isEnd_NullIsEnd(p, md) == p.null \/ md.run > Len(p.runs)

\* Variant: a cursor is at its end from the last run on.
isEnd_InLastRun(p, md) == ~p.null /\ md.run >= Len(p.runs)

\* Merger::MergeData::isEnd: all runs are used up; never for a null list.
isEnd(p, md) == ~p.null /\ md.run > Len(p.runs)

\* Merger::MergeData::update: one character on; a run that is used up is
\* left for the next one.
update(p, md) ==
    IF p.null \/ md.run > Len(p.runs) THEN md
    ELSE IF md.left > 1 THEN [md EXCEPT !.left = @ - 1]
    ELSE [run |-> md.run + 1, left |-> RunLength(p, md.run + 1)]

\* Merger::whatChanged
whatChanged ==
    (IF eq(pDiffList1, md1) THEN NoChange ELSE AChanged) +
    (IF eq(pDiffList2, md2) THEN NoChange ELSE BChanged)

\* Merger::isEndReached
isEndReached == isEnd(pDiffList1, md1) /\ isEnd(pDiffList2, md2)

\* No Merger is followed.
NoMergerState ==
    /\ pDiffList1 = NullDiffList
    /\ pDiffList2 = NullDiffList
    /\ md1 = MergeData(NullDiffList)
    /\ md2 = MergeData(NullDiffList)
    /\ nextCalls = 0

\* ---- LineRef ----
\* limits<LineType>::max() and min() of the 32 bit LineType.
LineTypeMax == 2147483647
LineTypeMin == -LineTypeMax - 1

\* A 64 bit operand is the pair hi, lo of the number hi * 2^31 + lo with
\* 0 <= lo < 2^31; quint64 has hi >= 0.
Quint64s == [hi : 0..MaxHigh, lo : {0, 1, LineTypeMax - 1, LineTypeMax}]
Qint64s == [hi : (-MaxHigh)..MaxHigh, lo : {0, 1, LineTypeMax - 1, LineTypeMax}]
LineTypes == {LineTypeMin, LineTypeMin + 1, -2, -1, 0, 1, LineTypeMax - 1, LineTypeMax}

\* The 64 bit image of a LineType (integral promotion of max() and of 0).
Widen(n) == IF n >= 0 THEN [hi |-> 0, lo |-> n] ELSE [hi |-> -1, lo |-> (n + LineTypeMax) + 1]
\* a <= b on 64 bit operands.
WideLessEq(a, b) == a.hi < b.hi \/ (a.hi = b.hi /\ a.lo <= b.lo)
\* (LineType)i: the low 32 bits of i read as a signed number.
Truncate(w) == IF w.hi % 2 = 0 THEN w.lo ELSE (w.lo - LineTypeMax) - 1

\* Variant: the constructor converts without a range check.
FromQuint64_Cast(w) == Truncate(w)
\* LineRef(const quint64 i)
FromQuint64(w) ==
    IF WideLessEq(w, Widen(LineTypeMax)) THEN Truncate(w) ELSE invalid

\* LineRef(const qint64 i)
FromQint64(w) ==
    IF WideLessEq(w, Widen(LineTypeMax)) /\ WideLessEq(Widen(0), w)
    THEN Truncate(w)
    ELSE invalid

\* Variant: every non-negative number is valid.
isValid_NonNegative(n) == n >= 0
\* isValid()
isValid(n) == n # invalid

\* Variant: the sum stops at the ends of the range.
SafeAdd_Saturating(a, b) ==
    IF b > 0 /\ a > LineTypeMax - b THEN LineTypeMax
    ELSE IF b < 0 /\ a < LineTypeMin - b THEN LineTypeMin
    ELSE a + b
\* SafeInt<LineType> addition: no error, the sum wraps around in 32 bits.
SafeAdd(a, b) ==
    IF b > 0 /\ a > LineTypeMax - b THEN LineTypeMin + ((b - 1) - (LineTypeMax - a))
    ELSE IF b < 0 /\ a < LineTypeMin - b THEN LineTypeMax - (((LineTypeMin - b) - 1) - a)
    ELSE a + b

LineRefOp(name, before, arg, ret) ==
    [op |-> name, before |-> before, arg |-> arg, ret |-> ret]

\* A default-constructed LineRef.
NoLineRefState ==
    /\ mLineNumber = invalid
    /\ lineRefOp = LineRefOp("LineRef()", invalid, Widen(0), invalid)
    /\ nLineRefOps = 0

\* ---- the alignment table of two files ----
\* A diff of the line diff list: numberOfEquals equal lines, then diff1 lines
\* only in A and diff2 lines only in B.
NoDiff == [numberOfEquals |-> 0, diff1 |-> 0, diff2 |-> 0]
Diffs ==
    [numberOfEquals : 0..MaxDiffLen, diff1 : 0..MaxDiffLen, diff2 : 0..MaxDiffLen]
        \ {NoDiff}
DiffListsAB == UNION {[1..n -> Diffs] : n \in 0..MaxDiffs}

\* The builder before its first row.
AlignStart == [taken |-> 0, d |-> NoDiff, lineA |-> 0, lineB |-> 0]

\* No table is being built.
NoAlignState ==
    /\ pDiffListAB = <<>>
    /\ d3ll = <<>>
    /\ alignCursor = AlignStart

\* ---- measuring the maximum text width of a window that does not wrap ----
\* The rows of the window and their chunks.
WidthRows == 0..(NumWidthRows - 1)
WidthChunks == 0..(NumWidthRows - 1)

\* Position and locals of a runnable that was not constructed.
NoWidthWorker ==
    [pc |-> "none", i |-> 0, maxTextWidth |-> 0, prevMaxTextWidth |-> 0,
     firstLine |-> 0, firstPos |-> 0, lastLine |-> 0, lastPos |-> 0,
     newValue |-> 0, count |-> 0, sawCancel |-> FALSE]

\* No window measures its maximum text width.
NoMaxWidthState ==
    /\ m_maxTextWidth = -1
    /\ maximumWidth = [r \in WidthRows |-> 0]
    /\ widthWorker = [j \in WidthChunks |-> NoWidthWorker]
    /\ widthPhase = "idle"

\* A ProgressDialog with an empty progress stack.
NoProgressState ==
    /\ m_progressStack = <<>>
    /\ progressOp = [op |-> "none", ret |-> FALSE]
    /\ cancelPending = FALSE

\* getBestFirstLine was not called.
NoBestFirstLineState ==
    bestFirstLine = [called |-> FALSE, line |-> 0, nofLines |-> 0, firstLine |-> 0,
                     visibleLines |-> 0, newFirstLine |-> 0]

\* No line is being classified.
NoScanState ==
    /\ charChanged = <<>>
    /\ scan_i = 0
    /\ wroteOutside = FALSE

\* Selection after reset(): no range set.
NoSelection == [firstLine |-> invalid, firstPos |-> 0, lastLine |-> invalid, lastPos |-> 0]

\* convertSelectionToD3LCoords was not called since the selection was set.
NoSelectionBefore == [status |-> "none", range |-> NoSelection, chars |-> {}, width |-> 0]

\* No selection is followed.
NoSelectionState ==
    /\ selectionWindow = 1
    /\ m_selection = NoSelection
    /\ m_bSelectionInProgress = FALSE
    /\ selectionSpace = "wrapped"
    /\ selectionBefore = NoSelectionBefore

\* No materializing call was made on the window in this recalculation.
NoMatResult == [status |-> "none", rows |-> 0, sizeWasSum |-> FALSE]

\* Position and locals of a runnable that was not constructed.
NoRunnable == [pc |-> "none", i |-> 0, linesNeeded |-> 0, newValue |-> 0,
               count |-> 0, sawCancel |-> FALSE]

Init ==
    /\ lineLen \in [Windows -> [Rows -> TextLens]]
    /\ s_linesPerRunnable \in 1..MaxLinesPerRunnable
    /\ linesNeededForDisplay = [r \in Rows |-> InitialLinesNeeded]
    /\ sumLinesNeededForDisplay = [r \in Rows |-> 0]
    /\ m_bWordWrap = [w \in Windows |-> FALSE]
    /\ m_wrapLineCacheList = [w \in Windows |-> <<>>]
    /\ m_diff3WrapLineVector = [w \in Windows |-> <<>>]
    /\ s_runnables = <<>>
    /\ s_runnableCount = 0
    /\ s_maxNofRunnables = 0
    /\ runnable = [id \in RunnableIds |-> NoRunnable]
    /\ m_bWasCancelled = FALSE
    /\ m_current = 0
    /\ phase = "idle"
    /\ visibleTextWidth = 1
    /\ nextWin = 1
    /\ wrapLineVectorSize = 0
    /\ lndAtStart = [r \in Rows |-> InitialLinesNeeded]
    /\ finishCount = 0
    /\ matResult = [w \in Windows |-> NoMatResult]
    /\ assertFailed = FALSE
    /\ oobRead = FALSE
    /\ lineInFile = [w \in Windows |-> [r \in Rows |-> r]]
    /\ lineQuery = NoLineQuery
    /\ NoSelectionState
    /\ NoMergerState
    /\ NoScanState
    /\ NoLineRefState
    /\ NoAlignState
    /\ NoBestFirstLineState
    /\ NoProgressState
    /\ NoMaxWidthState

\* ---- ProgressDialog ----
\* ProgressDialog::cancel, delivered by the GUI event loop while a
\* recalculation is under way.
Cancel ==
    /\ phase = "running"
    /\ ~m_bWasCancelled
    /\ m_bWasCancelled' = TRUE
    /\ UNCHANGED sumLinesNeededForDisplay
    /\ UNCHANGED mapperVars
    /\ UNCHANGED mergerVars
    /\ UNCHANGED scanVars
    /\ UNCHANGED lineRefVars
    /\ UNCHANGED alignVars
    /\ UNCHANGED bestFirstLineVars
    /\ UNCHANGED progressVars
    /\ UNCHANGED maxWidthVars
    /\ UNCHANGED selectionVars
    /\ UNCHANGED <<lineLen, s_linesPerRunnable, linesNeededForDisplay, m_bWordWrap,
                   m_wrapLineCacheList, m_diff3WrapLineVector, s_runnables,
                   s_runnableCount, s_maxNofRunnables, runnable,
                   m_current, phase, visibleTextWidth, nextWin, wrapLineVectorSize,
                   lndAtStart, finishCount, matResult, assertFailed, oobRead>>

\* ---- the caller: KDiff3App::recalcWordWrap ----
\* Starts a recalculation for some width: clears the cancel state and then
\* calls recalcWordWrap(true, 0, width) on every window in turn.
BeginRecalcWordWrap ==
    /\ phase = "idle"
    /\ \E width \in Widths : visibleTextWidth' = width
    /\ m_bWasCancelled' = FALSE
    /\ phase' = "queue"
    /\ nextWin' = 1
    /\ finishCount' = 0
    /\ matResult' = [w \in Windows |-> NoMatResult]
    /\ runnable' = [id \in RunnableIds |-> NoRunnable]
    /\ wrapLineVectorSize' = 0
    /\ lndAtStart' = linesNeededForDisplay
    /\ assertFailed' = FALSE
    /\ oobRead' = FALSE
    /\ UNCHANGED sumLinesNeededForDisplay
    /\ UNCHANGED mapperVars
    /\ UNCHANGED mergerVars
    /\ UNCHANGED scanVars
    /\ UNCHANGED lineRefVars
    /\ UNCHANGED alignVars
    /\ UNCHANGED bestFirstLineVars
    /\ UNCHANGED progressVars
    /\ UNCHANGED maxWidthVars
    /\ UNCHANGED selectionVars
    /\ UNCHANGED <<lineLen, s_linesPerRunnable, linesNeededForDisplay, m_bWordWrap,
                   m_wrapLineCacheList, m_diff3WrapLineVector, s_runnables,
                   s_runnableCount, s_maxNofRunnables, m_current>>

\* ---- DiffTextWindow::recalcWordWrap(true, 0, visibleTextWidth) ----
\* Measuring request of window nextWin: empties the wrap-line vector and the
\* cache list, then appends one empty cache slice and one runnable per chunk.
\* The RecalcWordWrapRunnable constructor increments s_runnableCount.
RecalcWordWrapMeasure ==
    /\ phase = "queue"
    /\ nextWin <= NumWindows
    /\ LET w == nextWin
           ids == [j \in 1..NofChunks |-> <<w, j - 1>>]
       IN /\ m_bWordWrap' = [m_bWordWrap EXCEPT ![w] = TRUE]
          /\ m_diff3WrapLineVector' = [m_diff3WrapLineVector EXCEPT ![w] = <<>>]
          /\ m_wrapLineCacheList' =
                [m_wrapLineCacheList EXCEPT ![w] = [j \in 1..NofChunks |-> <<>>]]
          /\ s_runnables' = s_runnables \o ids
          /\ s_runnableCount' = s_runnableCount + NofChunks
          /\ runnable' = [id \in RunnableIds |->
                IF id[1] = w /\ id[2] < NofChunks
                THEN [NoRunnable EXCEPT !.pc = "queued"]
                ELSE runnable[id]]
    /\ nextWin' = nextWin + 1
    /\ UNCHANGED sumLinesNeededForDisplay
    /\ UNCHANGED mapperVars
    /\ UNCHANGED mergerVars
    /\ UNCHANGED scanVars
    /\ UNCHANGED lineRefVars
    /\ UNCHANGED alignVars
    /\ UNCHANGED bestFirstLineVars
    /\ UNCHANGED progressVars
    /\ UNCHANGED maxWidthVars
    /\ UNCHANGED selectionVars
    /\ UNCHANGED <<lineLen, s_linesPerRunnable, linesNeededForDisplay,
                   s_maxNofRunnables, m_bWasCancelled, m_current, phase,
                   visibleTextWidth, wrapLineVectorSize, lndAtStart,
                   finishCount, matResult, assertFailed, oobRead>>

\* ---- DiffTextWindow::startRunnables ----
\* Called once every window has queued its runnables: records their number,
\* resets the progress value and hands every runnable to the thread pool.
StartRunnables ==
    /\ phase = "queue"
    /\ nextWin > NumWindows
    /\ Len(s_runnables) > 0
    /\ s_maxNofRunnables' = Len(s_runnables)
    /\ m_current' = 0
    /\ runnable' = [id \in RunnableIds |->
            IF runnable[id].pc = "queued"
            THEN [runnable[id] EXCEPT !.pc = "pending",
                                      !.i = id[2] * s_linesPerRunnable]
            ELSE runnable[id]]
    /\ s_runnables' = <<>>
    /\ phase' = "running"
    /\ lndAtStart' = linesNeededForDisplay
    /\ UNCHANGED sumLinesNeededForDisplay
    /\ UNCHANGED mapperVars
    /\ UNCHANGED mergerVars
    /\ UNCHANGED scanVars
    /\ UNCHANGED lineRefVars
    /\ UNCHANGED alignVars
    /\ UNCHANGED bestFirstLineVars
    /\ UNCHANGED progressVars
    /\ UNCHANGED maxWidthVars
    /\ UNCHANGED selectionVars
    /\ UNCHANGED <<lineLen, s_linesPerRunnable, linesNeededForDisplay, m_bWordWrap,
                   m_wrapLineCacheList, m_diff3WrapLineVector,
                   s_runnableCount, m_bWasCancelled, visibleTextWidth, nextWin,
                   wrapLineVectorSize, finishCount, matResult, assertFailed, oobRead>>

\* ---- QThreadPool::globalInstance() ----
\* Position of a runnable in the order startRunnables handed them to the pool
\* (window by window, chunk by chunk).
PoolOrder(id) == (id[1] - 1) * MaxChunks + id[2]
\* The runnables a pool thread is executing.
Running == {id \in RunnableIds : runnable[id].pc \in {"row", "write", "dec", "load", "set"}}
\* A pending runnable is taken by a free pool thread, the oldest first.
CanRun(id) ==
    \/ runnable[id].pc = "row"
    \/ /\ runnable[id].pc = "pending"
       /\ Cardinality(Running) < MaxThreads
       /\ \A other \in RunnableIds :
             runnable[other].pc = "pending" => PoolOrder(id) <= PoolOrder(other)

\* ---- recalcWordWrapHelper(0, visibleTextWidth, cacheListIdx): measuring ----
\* First and one-past-last row of chunk cacheListIdx.
FirstD3LineIdx(cacheListIdx) == cacheListIdx * s_linesPerRunnable
EndIdx(cacheListIdx) == Min(FirstD3LineIdx(cacheListIdx) + s_linesPerRunnable, NumRows)

\* The runnable moves on to row i + 1, or leaves the helper after its last row.
NextRow(id, r) ==
    IF r.i + 1 < EndIdx(id[2])
    THEN [r EXCEPT !.pc = "row", !.i = r.i + 1, !.linesNeeded = 0]
    ELSE [r EXCEPT !.pc = "dec", !.i = r.i + 1, !.linesNeeded = 0]

\* Variant of the comparison: the measured count replaces any other value.
NeedsMoreLines_Differs(current, linesNeeded) == current # linesNeeded

\* if(d3l.linesNeededForDisplay() < linesNeeded)
NeedsMoreLines(current, linesNeeded) == current < linesNeeded

\* Variant of the poll: the flag is read on entry of the helper only.
WasCancelled_OnEntryOnly(id, r) ==
    m_bWasCancelled /\ r.i = id[2] * s_linesPerRunnable

\* g_pProgressDialog->wasCancelled() at the top of the row loop (and on entry
\* of the helper): the value of the flag, read before every row.
WasCancelled(id, r) == m_bWasCancelled

\* Variant of the query: reading the flag resets it.
WasCancelledLeaves_Clears(flag) == FALSE

\* ProgressDialog::wasCancelled only reads the flag: it stays as it was.
WasCancelledLeaves(flag) == flag

\* One iteration of the row loop up to the comparison with the row's
\* linesNeededForDisplay: polls the cancellation flag, lays the row's text out,
\* appends its lines to the chunk's cache slice and reads the row's value.
HelperMeasureRow(id) ==
    LET w == id[1]
        j == id[2]
        r == runnable[id]
        lines == TextLayout(lineLen[w][r.i], visibleTextWidth)
        linesNeeded == Len(lines)
    IN
    /\ CanRun(id)
    /\ IF WasCancelled(id, r)
       THEN /\ runnable' = [runnable EXCEPT ![id] =
                    [r EXCEPT !.pc = "dec", !.sawCancel = TRUE]]
            /\ m_bWasCancelled' = WasCancelledLeaves(m_bWasCancelled)
            /\ UNCHANGED m_wrapLineCacheList
       ELSE /\ m_wrapLineCacheList' = [m_wrapLineCacheList EXCEPT ![w][j + 1] =
                    @ \o [l \in 1..linesNeeded |->
                            WrapLineCacheData(r.i, lines[l].textStart, lines[l].textLength)]]
            /\ runnable' = [runnable EXCEPT ![id] =
                    IF NeedsMoreLines(linesNeededForDisplay[r.i], linesNeeded)
                    THEN [r EXCEPT !.pc = "write", !.linesNeeded = linesNeeded]
                    ELSE NextRow(id, r)]
            /\ UNCHANGED m_bWasCancelled
    /\ UNCHANGED sumLinesNeededForDisplay
    /\ UNCHANGED mapperVars
    /\ UNCHANGED mergerVars
    /\ UNCHANGED scanVars
    /\ UNCHANGED lineRefVars
    /\ UNCHANGED alignVars
    /\ UNCHANGED bestFirstLineVars
    /\ UNCHANGED progressVars
    /\ UNCHANGED maxWidthVars
    /\ UNCHANGED selectionVars
    /\ UNCHANGED <<lineLen, s_linesPerRunnable, linesNeededForDisplay, m_bWordWrap,
                   m_diff3WrapLineVector, s_runnables,
                   s_runnableCount, s_maxNofRunnables,
                   m_current, phase, visibleTextWidth, nextWin, wrapLineVectorSize,
                   lndAtStart, finishCount, matResult, assertFailed, oobRead>>

\* Diff3Line::setLinesNeeded
SetLinesNeeded(lnd, i, linesNeeded) == [lnd EXCEPT ![i] = linesNeeded]

\* d3l.setLinesNeeded(linesNeeded) after the comparison succeeded.
HelperSetLinesNeeded(id) ==
    LET r == runnable[id] IN
    /\ r.pc = "write"
    /\ linesNeededForDisplay' = SetLinesNeeded(linesNeededForDisplay, r.i, r.linesNeeded)
    /\ runnable' = [runnable EXCEPT ![id] = NextRow(id, r)]
    /\ UNCHANGED sumLinesNeededForDisplay
    /\ UNCHANGED mapperVars
    /\ UNCHANGED mergerVars
    /\ UNCHANGED scanVars
    /\ UNCHANGED lineRefVars
    /\ UNCHANGED alignVars
    /\ UNCHANGED bestFirstLineVars
    /\ UNCHANGED progressVars
    /\ UNCHANGED maxWidthVars
    /\ UNCHANGED selectionVars
    /\ UNCHANGED <<lineLen, s_linesPerRunnable, m_bWordWrap,
                   m_wrapLineCacheList, m_diff3WrapLineVector, s_runnables,
                   s_runnableCount, s_maxNofRunnables, m_bWasCancelled,
                   m_current, phase, visibleTextWidth, nextWin, wrapLineVectorSize,
                   lndAtStart, finishCount, matResult, assertFailed, oobRead>>

\* ---- RecalcWordWrapRunnable::run after the helper returned ----
\* int newValue = s_runnableCount.fetchAndAddOrdered(-1) - 1;
RunDecrement(id) ==
    LET r == runnable[id] IN
    /\ r.pc = "dec"
    /\ s_runnableCount' = s_runnableCount - 1
    /\ runnable' = [runnable EXCEPT ![id] =
            [r EXCEPT !.pc = "load", !.newValue = s_runnableCount - 1]]
    /\ UNCHANGED sumLinesNeededForDisplay
    /\ UNCHANGED mapperVars
    /\ UNCHANGED mergerVars
    /\ UNCHANGED scanVars
    /\ UNCHANGED lineRefVars
    /\ UNCHANGED alignVars
    /\ UNCHANGED bestFirstLineVars
    /\ UNCHANGED progressVars
    /\ UNCHANGED maxWidthVars
    /\ UNCHANGED selectionVars
    /\ UNCHANGED <<lineLen, s_linesPerRunnable, linesNeededForDisplay, m_bWordWrap,
                   m_wrapLineCacheList, m_diff3WrapLineVector, s_runnables,
                   s_maxNofRunnables, m_bWasCancelled,
                   m_current, phase, visibleTextWidth, nextWin, wrapLineVectorSize,
                   lndAtStart, finishCount, matResult, assertFailed, oobRead>>

\* s_runnableCount.loadRelaxed(), the argument of setCurrent
RunLoadCount(id) ==
    LET r == runnable[id] IN
    /\ r.pc = "load"
    /\ runnable' = [runnable EXCEPT ![id] =
            [r EXCEPT !.pc = "set", !.count = s_runnableCount]]
    /\ UNCHANGED sumLinesNeededForDisplay
    /\ UNCHANGED mapperVars
    /\ UNCHANGED mergerVars
    /\ UNCHANGED scanVars
    /\ UNCHANGED lineRefVars
    /\ UNCHANGED alignVars
    /\ UNCHANGED bestFirstLineVars
    /\ UNCHANGED progressVars
    /\ UNCHANGED maxWidthVars
    /\ UNCHANGED selectionVars
    /\ UNCHANGED <<lineLen, s_linesPerRunnable, linesNeededForDisplay, m_bWordWrap,
                   m_wrapLineCacheList, m_diff3WrapLineVector, s_runnables,
                   s_runnableCount, s_maxNofRunnables, m_bWasCancelled,
                   m_current, phase, visibleTextWidth, nextWin, wrapLineVectorSize,
                   lndAtStart, finishCount, matResult, assertFailed, oobRead>>

\* Variant of the test: the counter is looked at again instead of newValue.
EmitsFinish_OnLoadedCount(r) == r.count = 0

\* if(newValue == 0): the runnable whose decrement reached zero emits.
EmitsFinish(r) == r.newValue = 0

\* g_pProgressDialog->setCurrent(s_maxNofRunnables - count);
\* if(newValue == 0) Q_EMIT finishRecalcWordWrap(m_visibleTextWidth);
RunSetCurrent(id) ==
    LET r == runnable[id] IN
    /\ r.pc = "set"
    /\ m_current' = s_maxNofRunnables - r.count
    /\ finishCount' = IF EmitsFinish(r) THEN finishCount + 1 ELSE finishCount
    /\ runnable' = [runnable EXCEPT ![id] = [r EXCEPT !.pc = "done", !.count = 0]]
    /\ UNCHANGED sumLinesNeededForDisplay
    /\ UNCHANGED mapperVars
    /\ UNCHANGED mergerVars
    /\ UNCHANGED scanVars
    /\ UNCHANGED lineRefVars
    /\ UNCHANGED alignVars
    /\ UNCHANGED bestFirstLineVars
    /\ UNCHANGED progressVars
    /\ UNCHANGED maxWidthVars
    /\ UNCHANGED selectionVars
    /\ UNCHANGED <<lineLen, s_linesPerRunnable, linesNeededForDisplay, m_bWordWrap,
                   m_wrapLineCacheList, m_diff3WrapLineVector, s_runnables,
                   s_runnableCount, s_maxNofRunnables, m_bWasCancelled,
                   phase, visibleTextWidth, nextWin, wrapLineVectorSize,
                   lndAtStart, matResult, assertFailed, oobRead>>

\* ---- the caller: KDiff3App::slotFinishRecalcWordWrap ----
\* Handles the queued finishRecalcWordWrap notification once the pool is idle.
\* A cancelled recalculation is incomplete and has to be triggered again;
\* otherwise the caller sums linesNeededForDisplay over the rows and calls
\* recalcWordWrap(true, sum, width) on every window in turn.
AllRunnablesDone ==
    \A id \in RunnableIds : runnable[id].pc \in {"none", "done"}

SlotFinishRecalcWordWrap ==
    /\ phase = "running"
    /\ finishCount > 0
    /\ AllRunnablesDone
    /\ IF m_bWasCancelled
       THEN /\ phase' = "idle"
            /\ UNCHANGED <<wrapLineVectorSize, sumLinesNeededForDisplay>>
       ELSE /\ phase' = "materialize"
            /\ wrapLineVectorSize' = SumTo(linesNeededForDisplay, NumRows - 1)
            /\ sumLinesNeededForDisplay' =
                  [r \in Rows |-> SumTo(linesNeededForDisplay, r - 1)]
    /\ nextWin' = 1
    /\ UNCHANGED mapperVars
    /\ UNCHANGED mergerVars
    /\ UNCHANGED scanVars
    /\ UNCHANGED lineRefVars
    /\ UNCHANGED alignVars
    /\ UNCHANGED bestFirstLineVars
    /\ UNCHANGED progressVars
    /\ UNCHANGED maxWidthVars
    /\ UNCHANGED selectionVars
    /\ UNCHANGED <<lineLen, s_linesPerRunnable, linesNeededForDisplay, m_bWordWrap,
                   m_wrapLineCacheList, m_diff3WrapLineVector, s_runnables,
                   s_runnableCount, s_maxNofRunnables, runnable, m_bWasCancelled,
                   m_current, visibleTextWidth, lndAtStart, finishCount,
                   matResult, assertFailed, oobRead>>

\* ---- recalcWordWrapHelper(wrapLineVectorSize > 0, ...): materializing ----
\* What a read through the cache cursor yields when the cursor is outside its
\* slice: any row index, any span.
Garbage == {WrapLineCacheData(d, s, n) : d \in -1..NumRows, s \in 0..1, n \in 0..1}

CachedLineIsOfRow_OrEarlier(pWrapLineCache, i) == pWrapLineCache.d3LineIdx <= i

\* if(pWrapLineCache->d3LineIdx() == i): the cached line is copied to the table.
CachedLineIsOfRow(pWrapLineCache, i) == pWrapLineCache.d3LineIdx = i

\* The while loop that collects the cached lines of row i.  The cursor is
\* (c, cacheIdx): slice c of the cache list (0-based), element cacheIdx.
\* st = [vec, l, c, cacheIdx, curCount, oob]
RECURSIVE CacheScan(_, _, _, _, _)
CacheScan(cache, i, wrapLineIdx, g, st) ==
    LET clc == Len(cache) - 1
        cllc == Len(cache[Len(cache)])
        inSlice == st.cacheIdx < Len(cache[st.c + 1])
        pWrapLineCache == IF inSlice THEN cache[st.c + 1][st.cacheIdx + 1] ELSE g
    IN
    IF ~(/\ wrapLineIdx + st.l < Len(st.vec)
         /\ (st.c < clc \/ (st.c = clc /\ st.cacheIdx < cllc)))
    THEN st
    ELSE IF ~(pWrapLineCache.d3LineIdx <= i)
    THEN [st EXCEPT !.oob = @ \/ ~inSlice]
    ELSE
      LET st1 == IF CachedLineIsOfRow(pWrapLineCache, i)
                 THEN [st EXCEPT
                         !.vec[wrapLineIdx + st.l + 1] =
                            [@ EXCEPT !.wrapLineOffset = pWrapLineCache.textStart,
                                      !.wrapLineLength = pWrapLineCache.textLength],
                         !.l = @ + 1,
                         !.oob = @ \/ ~inSlice]
                 ELSE [st EXCEPT !.oob = @ \/ ~inSlice]
      IN
      IF st.cacheIdx < st.curCount
      THEN CacheScan(cache, i, wrapLineIdx, g, [st1 EXCEPT !.cacheIdx = @ + 1])
      ELSE IF st.c + 1 >= Len(cache)
      THEN [st1 EXCEPT !.c = @ + 1]
      ELSE CacheScan(cache, i, wrapLineIdx, g,
                     [st1 EXCEPT !.c = @ + 1,
                                 !.curCount = Len(cache[st.c + 2]),
                                 !.cacheIdx = 0])

\* The row loop of materializing mode from row i on.  cancelAt is the row
\* before which wasCancelled() returns true (NumRows: never).
\* st = [vec, lnd, wrapLineIdx, c, assertFailed, oob, cancelled, rows]
RECURSIVE MaterializeRows(_, _, _, _, _)
MaterializeRows(cache, i, cancelAt, g, st) ==
    IF i >= NumRows THEN [st EXCEPT !.rows = i]
    ELSE IF i = cancelAt THEN [st EXCEPT !.cancelled = TRUE, !.rows = i]
    ELSE
      LET scan0 == [vec |-> st.vec, l |-> 0, c |-> st.c, cacheIdx |-> 0,
                    curCount |-> 0, oob |-> st.oob]
          scan == IF st.c < Len(cache)
                  THEN CacheScan(cache, i, st.wrapLineIdx, g,
                                 [scan0 EXCEPT !.curCount = Len(cache[st.c + 1]) - 1])
                  ELSE scan0
          linesNeeded == scan.l
          raise == NeedsMoreLines(st.lnd[i], linesNeeded)
          lnd1 == IF raise THEN SetLinesNeeded(st.lnd, i, linesNeeded) ELSE st.lnd
          n == Min(lnd1[i], Len(st.vec) - st.wrapLineIdx)
          vec1 == [k \in 1..Len(st.vec) |->
                     IF st.wrapLineIdx < k /\ k <= st.wrapLineIdx + n
                     THEN IF k - st.wrapLineIdx - 1 >= linesNeeded
                          THEN [diff3LineIndex |-> i, pD3L |-> i,
                                wrapLineOffset |-> 0, wrapLineLength |-> 0]
                          ELSE [scan.vec[k] EXCEPT !.diff3LineIndex = i, !.pD3L = i]
                     ELSE scan.vec[k]]
          st1 == [st EXCEPT !.vec = vec1, !.lnd = lnd1,
                            !.wrapLineIdx = @ + n, !.c = scan.c,
                            !.assertFailed = @ \/ raise, !.oob = scan.oob]
      IN IF st1.wrapLineIdx >= Len(st.vec)
         THEN [st1 EXCEPT !.rows = i + 1]
         ELSE MaterializeRows(cache, i + 1, cancelAt, g, st1)

\* QVector::resize: keeps the leading entries, pads with default ones.
Resize(vec, size) ==
    [k \in 1..size |-> IF k <= Len(vec) THEN vec[k] ELSE DefaultDiff3WrapLine]

\* ---- DiffTextWindow::recalcWordWrap(true, wrapLineVectorSize, width) ----
\* Materializing request of window nextWin, on the GUI thread.  wasCancelled()
\* processes pending GUI events, so a cancellation can arrive before any row.
RecalcWordWrapMaterialize ==
    /\ phase = "materialize"
    /\ nextWin <= NumWindows
    /\ \E cancelAt \in 0..NumRows, g \in Garbage :
        LET w == nextWin
            st0 == [vec |-> Resize(m_diff3WrapLineVector[w], wrapLineVectorSize),
                    lnd |-> linesNeededForDisplay, wrapLineIdx |-> 0, c |-> 0,
                    assertFailed |-> assertFailed, oob |-> oobRead,
                    cancelled |-> FALSE, rows |-> 0]
        IN /\ m_bWasCancelled => cancelAt = 0
           /\ \E st \in {MaterializeRows(m_wrapLineCacheList[w], 0, cancelAt, g, st0)} :
               /\ m_bWordWrap' = [m_bWordWrap EXCEPT ![w] = TRUE]
               /\ m_diff3WrapLineVector' = [m_diff3WrapLineVector EXCEPT ![w] = st.vec]
               /\ linesNeededForDisplay' = st.lnd
               /\ assertFailed' = st.assertFailed
               /\ oobRead' = st.oob
               /\ m_bWasCancelled' = (m_bWasCancelled \/ st.cancelled)
               /\ matResult' = [matResult EXCEPT ![w] =
                        [status |-> IF st.cancelled THEN "cancelled" ELSE "complete",
                         rows |-> st.rows,
                         sizeWasSum |-> wrapLineVectorSize =
                                            SumTo(linesNeededForDisplay, NumRows - 1)]]
    /\ nextWin' = nextWin + 1
    /\ phase' = IF nextWin = NumWindows THEN "idle" ELSE "materialize"
    /\ UNCHANGED sumLinesNeededForDisplay
    /\ UNCHANGED mapperVars
    /\ UNCHANGED mergerVars
    /\ UNCHANGED scanVars
    /\ UNCHANGED lineRefVars
    /\ UNCHANGED alignVars
    /\ UNCHANGED bestFirstLineVars
    /\ UNCHANGED progressVars
    /\ UNCHANGED maxWidthVars
    /\ UNCHANGED selectionVars
    /\ UNCHANGED <<lineLen, s_linesPerRunnable, m_wrapLineCacheList, s_runnables,
                   s_runnableCount, s_maxNofRunnables, runnable, m_current,
                   visibleTextWidth, wrapLineVectorSize, lndAtStart, finishCount>>

\* ---- coordinate conversions of a window ----

\* DiffTextWindow::getNofLines
getNofLines(w) ==
    IF m_bWordWrap[w] THEN Len(m_diff3WrapLineVector[w]) ELSE NumRows

\* Variant: the line indexes the table without the std::min; a line outside
\* the table yields no row.
convertLineToDiff3LineIdx_Unclamped(w, line) ==
    IF line # invalid /\ m_bWordWrap[w] /\ Len(m_diff3WrapLineVector[w]) > 0
    THEN IF line + 1 \in DOMAIN m_diff3WrapLineVector[w]
         THEN m_diff3WrapLineVector[w][line + 1].diff3LineIndex
         ELSE invalid
    ELSE line

\* DiffTextWindow::convertLineToDiff3LineIdx
convertLineToDiff3LineIdx(w, line) ==
    IF line # invalid /\ m_bWordWrap[w] /\ Len(m_diff3WrapLineVector[w]) > 0
    THEN m_diff3WrapLineVector[w][Min(line, Len(m_diff3WrapLineVector[w]) - 1) + 1].diff3LineIndex
    ELSE line

\* Variant: the stored sum is returned whether or not the window wraps.
convertDiff3LineIdxToLine_AlwaysWrapped(w, d3lIdx) ==
    IF d3lIdx >= 0
    THEN sumLinesNeededForDisplay[Min(d3lIdx, NumRows - 1)]
    ELSE d3lIdx

\* DiffTextWindow::convertDiff3LineIdxToLine
convertDiff3LineIdxToLine(w, d3lIdx) ==
    IF m_bWordWrap[w] /\ NumRows > 0
    THEN sumLinesNeededForDisplay[Min(d3lIdx, NumRows - 1)]
    ELSE d3lIdx


\* The while loop of convertD3LCoordsToLineCoords: steps over the wrap lines
\* that end before the position.  oob: the loop read the table outside its
\* bounds, after which any result is possible.
RECURSIVE SkipWrapLines(_, _, _)
SkipWrapLines(w, wrapLine, wrapPos) ==
    IF wrapLine + 1 \notin DOMAIN m_diff3WrapLineVector[w]
    THEN [line |-> wrapLine, pos |-> wrapPos, oob |-> TRUE]
    ELSE IF wrapPos > m_diff3WrapLineVector[w][wrapLine + 1].wrapLineLength
    THEN SkipWrapLines(w, wrapLine + 1,
                       wrapPos - m_diff3WrapLineVector[w][wrapLine + 1].wrapLineLength)
    ELSE [line |-> wrapLine, pos |-> wrapPos, oob |-> FALSE]

\* DiffTextWindow::convertD3LCoordsToLineCoords
convertD3LCoordsToLineCoords(w, d3LIdx, d3LPos) ==
    IF m_bWordWrap[w]
    THEN SkipWrapLines(w, convertDiff3LineIdxToLine(w, d3LIdx), d3LPos)
    ELSE [line |-> d3LIdx, pos |-> d3LPos, oob |-> FALSE]

\* The while loop of convertLineCoordsToD3LCoords: adds the lengths of the
\* wrap lines from wrapLine up to, not including, line.
RECURSIVE AddWrapLines(_, _, _, _, _)
AddWrapLines(w, d3LIdx, wrapLine, line, d3LPos) ==
    IF ~(wrapLine < line)
    THEN [d3LIdx |-> d3LIdx, d3LPos |-> d3LPos, oob |-> FALSE]
    ELSE IF wrapLine + 1 \notin DOMAIN m_diff3WrapLineVector[w]
    THEN [d3LIdx |-> d3LIdx, d3LPos |-> d3LPos, oob |-> TRUE]
    ELSE AddWrapLines(w, d3LIdx, wrapLine + 1, line,
                      d3LPos + m_diff3WrapLineVector[w][wrapLine + 1].wrapLineLength)

\* DiffTextWindow::convertLineCoordsToD3LCoords
convertLineCoordsToD3LCoords(w, line, pos) ==
    IF m_bWordWrap[w]
    THEN LET d3LIdx == convertLineToDiff3LineIdx(w, line)
         IN AddWrapLines(w, d3LIdx, convertDiff3LineIdxToLine(w, d3LIdx), line, pos)
    ELSE [d3LIdx |-> line, d3LPos |-> pos, oob |-> FALSE]

\* e_CoordType
CoordTypes == {"eFileCoords", "eD3LLineCoords", "eWrapCoords"}

\* Variant: only the given row is looked at.
ScanForLine_GivenRowOnly(w, d3lIdx, bFirstLine) ==
    IF d3lIdx < NumRows /\ d3lIdx >= 0 THEN lineInFile[w][d3lIdx] ELSE invalid

\* The while loop of convertLineOnScreenToLineInSource: from row d3lIdx on,
\* upwards if bFirstLine and downwards otherwise, until a row has a line in
\* the window's file or the index leaves the Diff3Line vector.
RECURSIVE ScanForLine(_, _, _)
ScanForLine(w, d3lIdx, bFirstLine) ==
    IF ~(d3lIdx < NumRows /\ d3lIdx >= 0) THEN invalid
    ELSE IF lineInFile[w][d3lIdx] # invalid THEN lineInFile[w][d3lIdx]
    ELSE ScanForLine(w, IF bFirstLine THEN d3lIdx + 1 ELSE d3lIdx - 1, bFirstLine)

\* DiffTextWindowData::convertLineOnScreenToLineInSource
convertLineOnScreenToLineInSource(w, lineOnScreen, coordType, bFirstLine) ==
    IF lineOnScreen >= 0
    THEN IF coordType = "eWrapCoords" THEN lineOnScreen
         ELSE LET idx == convertLineToDiff3LineIdx(w, lineOnScreen)
                  d3lIdx == IF ~bFirstLine /\ idx >= NumRows THEN NumRows - 1 ELSE idx
              IN IF coordType = "eD3LLineCoords" THEN d3lIdx
                 ELSE ScanForLine(w, d3lIdx, bFirstLine)
    ELSE invalid

\* A call of convertLineOnScreenToLineInSource on window w; the lines asked
\* about reach from one before the first to past the end of the tables.
ConvertLineOnScreenToLineInSource ==
    /\ \E w \in Windows, lineOnScreen \in QueryLines \cup {invalid},
          coordType \in CoordTypes, bFirstLine \in BOOLEAN :
            lineQuery' = [w |-> w, lineOnScreen |-> lineOnScreen,
                          coordType |-> coordType, bFirstLine |-> bFirstLine,
                          result |-> convertLineOnScreenToLineInSource(
                                         w, lineOnScreen, coordType, bFirstLine)]
    /\ UNCHANGED lineInFile
    /\ UNCHANGED selectionVars
    /\ UNCHANGED mergerVars
    /\ UNCHANGED scanVars
    /\ UNCHANGED lineRefVars
    /\ UNCHANGED alignVars
    /\ UNCHANGED bestFirstLineVars
    /\ UNCHANGED progressVars
    /\ UNCHANGED maxWidthVars
    /\ UNCHANGED wrapVars

Next ==
    \/ Cancel
    \/ BeginRecalcWordWrap
    \/ RecalcWordWrapMeasure
    \/ StartRunnables
    \/ \E id \in RunnableIds : HelperMeasureRow(id)
    \/ \E id \in RunnableIds : HelperSetLinesNeeded(id)
    \/ \E id \in RunnableIds : RunDecrement(id)
    \/ \E id \in RunnableIds : RunLoadCount(id)
    \/ \E id \in RunnableIds : RunSetCurrent(id)
    \/ SlotFinishRecalcWordWrap
    \/ RecalcWordWrapMaterialize

Spec == Init /\ [][Next]_vars

TypeOK ==
    /\ \A r \in Rows : linesNeededForDisplay[r] >= 1
    /\ s_runnableCount >= 0

\* ---- notions the properties share ----
\* The chunk of row r and the runnable of window w that owns the row.
ChunkOf(r) == r \div s_linesPerRunnable
\* Rows the runnable has taken past the cancellation poll so far.
RowsProcessed(id) ==
    LET r == runnable[id] IN
    IF r.pc \in {"none", "queued", "pending"} THEN {}
    ELSE {x \in Rows : /\ FirstD3LineIdx(id[2]) <= x
                       /\ (x < r.i \/ (x = r.i /\ r.pc = "write"))}
\* The lines window w recorded for row r in its cache list.
CachedLines(w, r) ==
    SelectSeq(Flatten(m_wrapLineCacheList[w]), LAMBDA e : e.d3LineIdx = r)
\* A batch has been started and every runnable has left run().
BatchFinished == phase = "running" /\ AllRunnablesDone
SomeSawCancel == \E id \in RunnableIds : runnable[id].sawCancel
MaxOver(S) == CHOOSE m \in S : \A x \in S : x <= m

C2_FinishEmittedOnce ==
    /\ finishCount <= 1
    /\ finishCount = 1 =>
          /\ s_runnableCount = 0
          /\ \A id \in RunnableIds : runnable[id].pc \in {"none", "load", "set", "done"}
          /\ \E id \in RunnableIds : runnable[id].pc = "done" /\ runnable[id].newValue = 0
    /\ BatchFinished => finishCount = 1
    /\ phase = "running" =>
          Cardinality({id \in RunnableIds :
                          /\ runnable[id].pc \in {"load", "set", "done"}
                          /\ runnable[id].newValue = 0}) <= 1

\* C2 witness: a batch of four runnables has finished and emitted.
C2_Witness ==
    /\ BatchFinished /\ finishCount = 1
    /\ s_maxNofRunnables = NumWindows * NumRows

\* C3: no two running runnables are ever both about to store the
\* linesNeededForDisplay of the same row.
C3_NoTwoWritersOfOneRow ==
    \A a, b \in RunnableIds :
        (a # b /\ runnable[a].pc = "write" /\ runnable[b].pc = "write")
            => runnable[a].i # runnable[b].i

\* C4: once an uncancelled batch has finished, every row holds the maximum of
\* its value before the pass and the line counts the windows measured for it.
C4_NoMeasuredCountLost ==
    (BatchFinished /\ ~SomeSawCancel) =>
        \A r \in Rows :
            linesNeededForDisplay[r] =
                MaxOver({lndAtStart[r]} \cup {Len(CachedLines(w, r)) : w \in Windows})

\* C5: a runnable that read the cancellation flag as set has left the helper
\* before the last row of its chunk; a cache slice holds lines only of rows its
\* runnable took past the poll; a row no runnable took past the poll keeps the
\* value it had before the pass; and while the flag is set no runnable takes
\* another row past the poll (no slice grows, no runnable starts a store).
C5_State ==
    /\ \A id \in RunnableIds :
          runnable[id].sawCancel =>
              /\ runnable[id].pc \in {"dec", "load", "set", "done"}
              /\ runnable[id].i < EndIdx(id[2])
    /\ phase = "running" =>
          \A id \in RunnableIds : runnable[id].pc # "none" =>
              \A k \in 1..Len(m_wrapLineCacheList[id[1]][id[2] + 1]) :
                  m_wrapLineCacheList[id[1]][id[2] + 1][k].d3LineIdx \in RowsProcessed(id)
    /\ phase = "running" =>
          \A r \in Rows :
              (\A w \in Windows : r \notin RowsProcessed(<<w, ChunkOf(r)>>))
                  => linesNeededForDisplay[r] = lndAtStart[r]
C5_Step ==
    (phase = "running" /\ m_bWasCancelled) =>
        /\ m_wrapLineCacheList' = m_wrapLineCacheList
        /\ \A id \in RunnableIds :
              runnable'[id].pc = "write" => runnable[id].pc = "write"
C6_CancelledIsReportedIncomplete ==
    /\ (phase = "running" /\ SomeSawCancel) => m_bWasCancelled
    /\ phase = "materialize" => ~SomeSawCancel

\* C6 witness: the batch is over, a runnable had read the flag as set.
C6_Witness == BatchFinished /\ finishCount = 1 /\ SomeSawCancel

\* C7: over the setCurrent calls of a batch the reported value never goes
\* down, and it ends at the number of runnables.
C7_Step == (phase = "running" /\ phase' = "running") => m_current' >= m_current
C7_End == BatchFinished => m_current = s_maxNofRunnables
C7_ProgressMonotone == [][C7_Step]_vars /\ []C7_End

\* ---- materializing mode ----
\* Window w is the window whose materializing call has just returned.
JustMaterialized(w) ==
    /\ matResult[w].status # "none"
    /\ \/ phase = "materialize" /\ nextWin = w + 1
       \/ phase = "idle" /\ w = NumWindows
\* The slots of window w's table assigned to row i, in ascending order.
RECURSIVE SlotsFrom(_, _, _)
SlotsFrom(vec, i, k) ==
    IF k > Len(vec) THEN <<>>
    ELSE IF vec[k].pD3L = i THEN <<k>> \o SlotsFrom(vec, i, k + 1)
    ELSE SlotsFrom(vec, i, k + 1)
RowSlots(w, i) == SlotsFrom(m_diff3WrapLineVector[w], i, 1)

\* C8: a materializing call made with wrapLineVectorSize equal to the sum of
\* linesNeededForDisplay returns with every slot of the table assigned to a
\* row and each row i owning exactly linesNeededForDisplay(i) slots, all of
\* them with diff3LineIndex i.
C8_EachRowOwnsItsLines ==
    \A w \in Windows :
        (JustMaterialized(w) /\ matResult[w].status = "complete" /\ matResult[w].sizeWasSum) =>
            /\ Len(m_diff3WrapLineVector[w]) = wrapLineVectorSize
            /\ \A k \in 1..Len(m_diff3WrapLineVector[w]) :
                  /\ m_diff3WrapLineVector[w][k].pD3L \in Rows
                  /\ m_diff3WrapLineVector[w][k].diff3LineIndex = m_diff3WrapLineVector[w][k].pD3L
            /\ \A i \in Rows : Len(RowSlots(w, i)) = linesNeededForDisplay[i]

\* A measured line count has been lost: a window holds more cached lines for a
\* row than the row's linesNeededForDisplay, or materializing had to raise it.
LostUpdateSeen ==
    \/ assertFailed
    \/ \E w \in Windows, r \in Rows : Len(CachedLines(w, r)) > linesNeededForDisplay[r]

\* Slot k of window w's table carries the cached line e.
Carries(w, k, e) ==
    /\ m_diff3WrapLineVector[w][k].wrapLineOffset = e.textStart
    /\ m_diff3WrapLineVector[w][k].wrapLineLength = e.textLength
IsFiller(w, k) ==
    /\ m_diff3WrapLineVector[w][k].wrapLineOffset = 0
    /\ m_diff3WrapLineVector[w][k].wrapLineLength = 0

\* C9: after a materializing call, a row it processed whose own cached line
\* count m in this window is smaller than the row's linesNeededForDisplay n
\* owns n slots: the first m carry the cached lines in order, the other n - m
\* are filler with offset 0 and length 0.
C9_TrailingFiller ==
    \A w \in Windows : JustMaterialized(w) =>
        \A i \in Rows :
            (i < matResult[w].rows /\ Len(CachedLines(w, i)) < linesNeededForDisplay[i]) =>
                LET cached == CachedLines(w, i)
                    slots == RowSlots(w, i)
                IN /\ Len(slots) = linesNeededForDisplay[i]
                   /\ \A j \in 1..Len(slots) :
                         IF j <= Len(cached) THEN Carries(w, slots[j], cached[j])
                         ELSE IsFiller(w, slots[j])

\* C10: after a materializing call, for every row it processed and whatever
\* the chunk size, the k-th slot of the row carries the k-th line measuring
\* cached for the row; the slots of a row are consecutive; and a cached line
\* is left without a slot only where the table ends.
C10_SegmentsInOrder ==
    \A w \in Windows : JustMaterialized(w) =>
        \A i \in Rows : i < matResult[w].rows =>
            LET cached == CachedLines(w, i)
                slots == RowSlots(w, i)
            IN /\ \A j \in 1..Len(slots) :
                     /\ j <= Len(cached) => Carries(w, slots[j], cached[j])
                     /\ j > 1 => slots[j] = slots[j - 1] + 1
               /\ Len(slots) < Len(cached) =>
                     (slots # <<>> /\ slots[Len(slots)] = Len(m_diff3WrapLineVector[w]))

\* C10 witness: with one row per chunk, a window has materialized two rows of
\* two or more cached lines each, every line in a slot of its own, the second
\* row's lines coming from the second slice of the cache list.
C10_Witness ==
    \E w \in Windows :
        /\ JustMaterialized(w) /\ matResult[w].status = "complete"
        /\ s_linesPerRunnable = 1
        /\ Len(m_wrapLineCacheList[w]) = NumRows
        /\ \A i \in Rows :
              /\ Len(CachedLines(w, i)) >= 2
              /\ Len(RowSlots(w, i)) = Len(CachedLines(w, i))

\* The counting claims fail only in runs in which a measured count was lost.
C8_OnlyAfterLostUpdate == LostUpdateSeen \/ C8_EachRowOwnsItsLines
C9_OnlyAfterLostUpdate == LostUpdateSeen \/ C9_TrailingFiller
NoOobRead == ~oobRead

\* ---- the materialized table ----
\* The last materializing call on window w went through every row.
Materialized(w) == matResult[w].status = "complete"

\* C11: after a materializing call that was not cancelled, every slot of the
\* table belongs to a row, the rows appear in ascending order (so the slots of
\* a row are contiguous), and within a row the entries that carry text are in
\* ascending offset, whatever the order in which the runnables measured.
C11_TableInRowOrder ==
    \A w \in Windows : Materialized(w) =>
        LET vec == m_diff3WrapLineVector[w] IN
        /\ \A k \in 1..Len(vec) : vec[k].diff3LineIndex \in Rows
        /\ \A k1, k2 \in 1..Len(vec) : k1 < k2 =>
              /\ vec[k1].diff3LineIndex <= vec[k2].diff3LineIndex
              /\ (/\ vec[k1].diff3LineIndex = vec[k2].diff3LineIndex
                  /\ vec[k1].wrapLineLength > 0
                  /\ vec[k2].wrapLineLength > 0)
                    => vec[k1].wrapLineOffset < vec[k2].wrapLineOffset

\* C11 witness: with one row per chunk, the runnable of a window's first row
\* left the helper after the runnable of its second row, and the window's
\* table holds two rows of two or more lines each.
C11_Witness ==
    \E w \in Windows :
        /\ Materialized(w)
        /\ s_linesPerRunnable = 1
        /\ runnable[<<w, 0>>].newValue < runnable[<<w, 1>>].newValue
        /\ \A i \in Rows : Len(RowSlots(w, i)) >= 2
\* ---- coordinate conversions ----
\* C12: with wrapping active and a materialized table, a visual line v inside
\* the table is converted to the row r with
\* sum of linesNeededForDisplay(0..r-1) <= v < sum of linesNeededForDisplay(0..r).
C12_LineToRowByCumulativeSum ==
    \A w \in Windows : (m_bWordWrap[w] /\ Materialized(w)) =>
        \A v \in 0..(Len(m_diff3WrapLineVector[w]) - 1) :
            LET r == convertLineToDiff3LineIdx(w, v) IN
            /\ r \in Rows
            /\ SumTo(linesNeededForDisplay, r - 1) <= v
            /\ v < SumTo(linesNeededForDisplay, r)
C12_OnlyAfterLostUpdate == LostUpdateSeen \/ C12_LineToRowByCumulativeSum

\* C13: with wrapping active and a materialized table, a row r is converted to
\* the sum of linesNeededForDisplay of the rows before it, and the table entry
\* at that visual line belongs to row r.
C13_RowToFirstLine ==
    \A w \in Windows : (m_bWordWrap[w] /\ Materialized(w)) =>
        \A r \in Rows :
            LET v == convertDiff3LineIdxToLine(w, r) IN
            /\ v = SumTo(linesNeededForDisplay, r - 1)
            /\ v + 1 \in DOMAIN m_diff3WrapLineVector[w]
            /\ m_diff3WrapLineVector[w][v + 1].diff3LineIndex = r
C13_OnlyAfterLostUpdate == LostUpdateSeen \/ C13_RowToFirstLine
\* Converting (row, offset) of window w to line coordinates and back gives
\* (row, offset) again, without a read outside the table.
RoundTrips(w, r, off) ==
    LET a == convertD3LCoordsToLineCoords(w, r, off)
        b == convertLineCoordsToD3LCoords(w, a.line, a.pos)
    IN /\ ~a.oob
       /\ ~b.oob
       /\ b.d3LIdx = r
       /\ b.d3LPos = off

\* C14: for every row and every offset from 0 to the length of the row's
\* text, convertD3LCoordsToLineCoords followed by convertLineCoordsToD3LCoords
\* returns (row, offset), with wrapping on and a materialized table as well
\* as with wrapping off.
C14_RoundTrip ==
    \A w \in Windows : (~m_bWordWrap[w] \/ Materialized(w)) =>
        \A r \in Rows : \A off \in 0..lineLen[w][r] : RoundTrips(w, r, off)
C14_OnlyAfterLostUpdate == LostUpdateSeen \/ C14_RoundTrip
\* C15: while a window does not wrap, convertLineToDiff3LineIdx,
\* convertDiff3LineIdxToLine, convertD3LCoordsToLineCoords and
\* convertLineCoordsToD3LCoords return the line and position they are given,
\* and getNofLines is the number of rows.
C15_IdentityWhenNotWrapping ==
    \A w \in Windows : ~m_bWordWrap[w] =>
        /\ getNofLines(w) = NumRows
        /\ \A line \in QueryLines \cup {invalid} :
              /\ convertLineToDiff3LineIdx(w, line) = line
              /\ convertDiff3LineIdxToLine(w, line) = line
              /\ \A pos \in QueryPositions :
                    /\ convertD3LCoordsToLineCoords(w, line, pos) =
                          [line |-> line, pos |-> pos, oob |-> FALSE]
                    /\ convertLineCoordsToD3LCoords(w, line, pos) =
                          [d3LIdx |-> line, d3LPos |-> pos, oob |-> FALSE]

\* C15 witness: the first window already wraps and has queued its runnables,
\* the second window does not wrap and is asked about its lines.
C15_Witness ==
    /\ phase = "queue"
    /\ m_bWordWrap[1]
    /\ ~m_bWordWrap[NumWindows]
    /\ getNofLines(NumWindows) = NumRows
    /\ getNofLines(1) = 0
\* ---- the line mapping on its own ----
\* The wrap-line table of a window once a recalculation at the width has gone
\* through without a cancellation and without a lost count: per row the lines
\* of the window's text, then empty entries up to the row's line count.
RowWrapLines(len, lnd, width, r) ==
    [k \in 1..lnd[r] |->
        IF k <= LineCount(len[r], width)
        THEN [diff3LineIndex |-> r, pD3L |-> r,
              wrapLineOffset |-> TextLayout(len[r], width)[k].textStart,
              wrapLineLength |-> TextLayout(len[r], width)[k].textLength]
        ELSE [diff3LineIndex |-> r, pD3L |-> r,
              wrapLineOffset |-> 0, wrapLineLength |-> 0]]
WrapLines(len, lnd, width) ==
    Flatten([i \in 1..NumRows |-> RowWrapLines(len, lnd, width, i - 1)])

\* The largest line count of a row over the windows.
RECURSIVE MaxLineCount(_, _, _, _)
MaxLineCount(len, width, r, w) ==
    IF w = 0 THEN InitialLinesNeeded
    ELSE LET m == MaxLineCount(len, width, r, w - 1)
             c == LineCount(len[w][r], width)
         IN IF c > m THEN c ELSE m

\* The line numbers of a file whose lines sit in the rows of present, in order.
LinesOf(present) ==
    [r \in Rows |-> IF r \in present
                    THEN Cardinality({q \in present : q < r})
                    ELSE invalid]

\* The windows at rest: either not wrapping, with empty tables, or wrapped at
\* some width.  A row without a line in a window's file has an empty text
\* there.  What the line mapping does not read is as after construction.
RestingWindows ==
    /\ \E present \in [Windows -> SUBSET Rows] :
          /\ lineInFile = [w \in Windows |-> LinesOf(present[w])]
          /\ lineLen \in [Windows -> [Rows -> TextLens \cup {0}]]
          /\ \A w \in Windows, r \in Rows : (lineLen[w][r] = 0) <=> (r \notin present[w])
    /\ visibleTextWidth \in Widths
    /\ \E wrap \in BOOLEAN :
          /\ m_bWordWrap = [w \in Windows |-> wrap]
          /\ linesNeededForDisplay =
                [r \in Rows |-> IF wrap
                                THEN MaxLineCount(lineLen, visibleTextWidth, r, NumWindows)
                                ELSE InitialLinesNeeded]
          /\ sumLinesNeededForDisplay =
                [r \in Rows |-> IF wrap THEN SumTo(linesNeededForDisplay, r - 1) ELSE 0]
          /\ m_diff3WrapLineVector =
                [w \in Windows |-> IF wrap
                                   THEN WrapLines(lineLen[w], linesNeededForDisplay,
                                                  visibleTextWidth)
                                   ELSE <<>>]
    /\ s_linesPerRunnable = 1
    /\ m_wrapLineCacheList = [w \in Windows |-> <<>>]
    /\ s_runnables = <<>>
    /\ s_runnableCount = 0
    /\ s_maxNofRunnables = 0
    /\ runnable = [id \in RunnableIds |-> NoRunnable]
    /\ m_bWasCancelled = FALSE
    /\ m_current = 0
    /\ phase = "idle"
    /\ nextWin = 1
    /\ wrapLineVectorSize = 0
    /\ lndAtStart = linesNeededForDisplay
    /\ finishCount = 0
    /\ matResult = [w \in Windows |-> NoMatResult]
    /\ assertFailed = FALSE
    /\ oobRead = FALSE

InitMapper ==
    /\ RestingWindows
    /\ lineQuery = NoLineQuery
    /\ NoSelectionState
    /\ NoMergerState
    /\ NoScanState
    /\ NoLineRefState
    /\ NoAlignState
    /\ NoBestFirstLineState
    /\ NoProgressState
    /\ NoMaxWidthState

\* The tables RestingWindows describes are the ones the engine leaves behind:
\* holds in Spec.
RestingTableIsWrapLines ==
    (phase = "idle" /\ ~LostUpdateSeen) =>
        \A w \in Windows : Materialized(w) =>
            m_diff3WrapLineVector[w] =
                WrapLines(lineLen[w], linesNeededForDisplay, visibleTextWidth)

NextMapper == ConvertLineOnScreenToLineInSource

SpecMapper == InitMapper /\ [][NextMapper]_vars

\* The rows that have a line in the window's file, from row d3lIdx on in the
\* direction of the scan.
RowsWithLine(w, d3lIdx, bFirstLine) ==
    {r \in Rows : /\ lineInFile[w][r] # invalid
                  /\ IF bFirstLine THEN r >= d3lIdx ELSE r <= d3lIdx}
Distance(a, b) == IF a > b THEN a - b ELSE b - a
NearestRow(S, d3lIdx) ==
    CHOOSE r \in S : \A q \in S : Distance(r, d3lIdx) <= Distance(q, d3lIdx)

\* C16: a convertLineOnScreenToLineInSource call with file coordinates returns
\* the line of the nearest row, from the row of the line on screen forwards if
\* bFirstLine and backwards otherwise, that has a line in the window's file;
\* it returns the invalid line if there is no such row before the end (or the
\* start) of the rows, and if lineOnScreen is negative.
C16_NearestLineInFile ==
    (lineQuery.coordType = "eFileCoords") =>
        LET w == lineQuery.w
            S == RowsWithLine(w, convertLineToDiff3LineIdx(w, lineQuery.lineOnScreen),
                              lineQuery.bFirstLine)
        IN lineQuery.result =
              IF lineQuery.lineOnScreen < 0 \/ S = {}
              THEN invalid
              ELSE lineInFile[w][NearestRow(S,
                       convertLineToDiff3LineIdx(w, lineQuery.lineOnScreen))]

\* C16 witness: in a wrapping window, a backward scan from a row without a
\* line in the file that ends on an earlier row.
C16_Witness ==
    /\ lineQuery.coordType = "eFileCoords"
    /\ ~lineQuery.bFirstLine
    /\ lineQuery.lineOnScreen >= 0
    /\ m_bWordWrap[lineQuery.w]
    /\ lineInFile[lineQuery.w][convertLineToDiff3LineIdx(lineQuery.w,
                                   lineQuery.lineOnScreen)] = invalid
    /\ lineQuery.result # invalid

\* How far past the end of a table the conversions are asked.
MaxBeyond == 2

\* C17: in a wrapping window with a non-empty table, convertLineToDiff3LineIdx
\* of a visual line at or beyond the table size returns the row of the last
\* table entry, and convertDiff3LineIdxToLine of a row index at or beyond the
\* row count returns what it returns for the last row; the index either reads
\* with lies inside its table.
C17_ClampedToLastEntry ==
    \A w \in Windows :
        LET size == Len(m_diff3WrapLineVector[w])
        IN (m_bWordWrap[w] /\ size > 0) =>
              /\ \A v \in size..(size + MaxBeyond) :
                    /\ Min(v, size - 1) + 1 \in DOMAIN m_diff3WrapLineVector[w]
                    /\ convertLineToDiff3LineIdx(w, v) =
                          m_diff3WrapLineVector[w][size].diff3LineIndex
              /\ \A r \in NumRows..(NumRows + MaxBeyond) :
                    /\ Min(r, NumRows - 1) \in DOMAIN sumLinesNeededForDisplay
                    /\ convertDiff3LineIdxToLine(w, r) =
                          convertDiff3LineIdxToLine(w, NumRows - 1)

\* C17 witness: a completely materialized table that ends with the last row,
\* which does not start at visual line 0.
C17_Witness ==
    \E w \in Windows :
        LET size == Len(m_diff3WrapLineVector[w])
        IN /\ m_bWordWrap[w]
           /\ Materialized(w)
           /\ size > NumRows
           /\ convertLineToDiff3LineIdx(w, size + MaxBeyond) = NumRows - 1
           /\ convertDiff3LineIdxToLine(w, NumRows) > 0
\* ---- the selection of a window across a recalculation ----
\* Selection::isEmpty
isEmpty(sel) ==
    sel.firstLine = invalid \/ (sel.firstLine = sel.lastLine /\ sel.firstPos = sel.lastPos)

\* Selection::start and Selection::end
start(sel, line, pos) == [sel EXCEPT !.firstLine = line, !.firstPos = pos]
end(sel, line, pos) == [sel EXCEPT !.lastLine = line, !.lastPos = pos]

\* Variant: the points are ordered by their lines alone.
FirstIsBegin_LinesOnly(sel) == sel.firstLine <= sel.lastLine

\* Selection::beginLine, beginPos, endLine, endPos: the range in order.
FirstIsBegin(sel) ==
    \/ sel.firstLine < sel.lastLine
    \/ (sel.firstLine = sel.lastLine /\ sel.firstPos <= sel.lastPos)
beginLine(sel) == IF FirstIsBegin(sel) THEN sel.firstLine ELSE sel.lastLine
beginPos(sel) == IF FirstIsBegin(sel) THEN sel.firstPos ELSE sel.lastPos
endLine(sel) == IF FirstIsBegin(sel) THEN sel.lastLine ELSE sel.firstLine
endPos(sel) == IF FirstIsBegin(sel) THEN sel.lastPos ELSE sel.firstPos

\* The range of a selection in order.
Range(sel) ==
    [firstLine |-> beginLine(sel), firstPos |-> beginPos(sel),
     lastLine |-> endLine(sel), lastPos |-> endPos(sel)]

\* Variant: the end point belongs to the selection.
within_EndIncluded(sel, l, p) ==
    /\ sel.firstLine # invalid
    /\ beginLine(sel) <= l /\ l <= endLine(sel)
    /\ IF beginLine(sel) = endLine(sel) THEN beginPos(sel) <= p /\ p <= endPos(sel)
       ELSE IF l = beginLine(sel) THEN p >= beginPos(sel)
       ELSE IF l = endLine(sel) THEN p <= endPos(sel)
       ELSE TRUE

\* Selection::within: never within a selection without a first line; else
\* by the line's place between the first and the last line of the range.
within(sel, l, p) ==
    /\ sel.firstLine # invalid
    /\ beginLine(sel) <= l /\ l <= endLine(sel)
    /\ IF beginLine(sel) = endLine(sel) THEN beginPos(sel) <= p /\ p < endPos(sel)
       ELSE IF l = beginLine(sel) THEN p >= beginPos(sel)
       ELSE IF l = endLine(sel) THEN p < endPos(sel)
       ELSE TRUE

\* Selection::reset
reset(sel) == NoSelection

\* The points of the window's wrapped text the pointer can be at: a visual
\* line of the table and a cursor position in its string.
MousePoints(w) ==
    {pt \in (0..(NumRows * MaxTextLen)) \X (0..MaxTextLen) :
        /\ pt[1] < getNofLines(w)
        /\ pt[2] <= m_diff3WrapLineVector[w][pt[1] + 1].wrapLineLength}

\* The characters of the window's text, as (row, offset in the row's text),
\* that lie within a selection held in wrapped coordinates.
SelectedChars(w, sel) ==
    IF isEmpty(sel) THEN {}
    ELSE {ch \in Rows \X (0..(MaxTextLen - 1)) :
            \E l \in 0..(getNofLines(w) - 1) :
                LET wl == m_diff3WrapLineVector[w][l + 1]
                    p == ch[2] - wl.wrapLineOffset
                IN /\ wl.diff3LineIndex = ch[1]
                   /\ 0 <= p /\ p < wl.wrapLineLength
                   /\ (l > beginLine(sel) \/ (l = beginLine(sel) /\ p >= beginPos(sel)))
                   /\ (l < endLine(sel) \/ (l = endLine(sel) /\ p < endPos(sel)))}

\* DiffTextWindow::mousePressEvent, left button in the text, not held before:
\* a new selection that starts and ends at the point.
MousePress ==
    /\ selectionSpace = "wrapped"
    /\ ~m_bSelectionInProgress
    /\ \E pt \in MousePoints(selectionWindow) :
          m_selection' = end(start(NoSelection, pt[1], pt[2]), pt[1], pt[2])
    /\ m_bSelectionInProgress' = TRUE
    /\ selectionBefore' = NoSelectionBefore
    /\ UNCHANGED <<selectionWindow, selectionSpace>>
    /\ UNCHANGED mapperVars
    /\ UNCHANGED mergerVars
    /\ UNCHANGED scanVars
    /\ UNCHANGED lineRefVars
    /\ UNCHANGED alignVars
    /\ UNCHANGED bestFirstLineVars
    /\ UNCHANGED progressVars
    /\ UNCHANGED maxWidthVars
    /\ UNCHANGED wrapVars

\* DiffTextWindow::mouseMoveEvent: the end follows the pointer.  Followed are
\* the moves with the left button held since the press.
MouseMove ==
    /\ selectionSpace = "wrapped"
    /\ m_bSelectionInProgress
    /\ m_selection.firstLine # invalid
    /\ \E pt \in MousePoints(selectionWindow) :
          m_selection' = end(m_selection, pt[1], pt[2])
    /\ UNCHANGED <<selectionWindow, m_bSelectionInProgress, selectionSpace,
                   selectionBefore>>
    /\ UNCHANGED mapperVars
    /\ UNCHANGED mergerVars
    /\ UNCHANGED scanVars
    /\ UNCHANGED lineRefVars
    /\ UNCHANGED alignVars
    /\ UNCHANGED bestFirstLineVars
    /\ UNCHANGED progressVars
    /\ UNCHANGED maxWidthVars
    /\ UNCHANGED wrapVars

\* DiffTextWindow::mouseReleaseEvent
MouseRelease ==
    /\ m_bSelectionInProgress
    /\ m_bSelectionInProgress' = FALSE
    /\ UNCHANGED <<selectionWindow, m_selection, selectionSpace, selectionBefore>>
    /\ UNCHANGED mapperVars
    /\ UNCHANGED mergerVars
    /\ UNCHANGED scanVars
    /\ UNCHANGED lineRefVars
    /\ UNCHANGED alignVars
    /\ UNCHANGED bestFirstLineVars
    /\ UNCHANGED progressVars
    /\ UNCHANGED maxWidthVars
    /\ UNCHANGED wrapVars

\* DiffTextWindow::mouseDoubleClickEvent, left button on a line with text: the
\* selection becomes the token at the point, and no selection is in progress.
\* The text of a wrap line is one token.
MouseDoubleClick ==
    /\ selectionSpace = "wrapped"
    /\ ~m_bSelectionInProgress
    /\ m_bSelectionInProgress' = FALSE
    /\ \E line \in 0..(getNofLines(selectionWindow) - 1) :
          LET pos1 == 0
              pos2 == m_diff3WrapLineVector[selectionWindow][line + 1].wrapLineLength
          IN /\ pos2 > 0
             /\ m_selection' = end(start(reset(m_selection), line, pos1), line, pos2)
    /\ selectionBefore' = NoSelectionBefore
    /\ UNCHANGED <<selectionWindow, selectionSpace>>
    /\ UNCHANGED mapperVars
    /\ UNCHANGED mergerVars
    /\ UNCHANGED scanVars
    /\ UNCHANGED lineRefVars
    /\ UNCHANGED alignVars
    /\ UNCHANGED bestFirstLineVars
    /\ UNCHANGED progressVars
    /\ UNCHANGED maxWidthVars
    /\ UNCHANGED wrapVars

\* DiffTextWindow::resetSelection, in any state of the buttons.
ResetSelection ==
    /\ selectionSpace = "wrapped"
    /\ m_selection' = reset(m_selection)
    /\ selectionBefore' = NoSelectionBefore
    /\ UNCHANGED <<selectionWindow, m_bSelectionInProgress, selectionSpace>>
    /\ UNCHANGED mapperVars
    /\ UNCHANGED mergerVars
    /\ UNCHANGED scanVars
    /\ UNCHANGED lineRefVars
    /\ UNCHANGED alignVars
    /\ UNCHANGED bestFirstLineVars
    /\ UNCHANGED progressVars
    /\ UNCHANGED maxWidthVars
    /\ UNCHANGED wrapVars

\* DiffTextWindow::convertSelectionToD3LCoords, called before the wrap lines
\* are recalculated.  Recalculations are followed that start while no button
\* is held.
ConvertSelectionToD3LCoords ==
    /\ selectionSpace = "wrapped"
    /\ ~m_bSelectionInProgress
    /\ LET w == selectionWindow
           first == convertLineCoordsToD3LCoords(w, beginLine(m_selection),
                                                 beginPos(m_selection))
           last == convertLineCoordsToD3LCoords(w, endLine(m_selection),
                                                endPos(m_selection))
       IN /\ m_selection' =
                IF isEmpty(m_selection) THEN m_selection
                ELSE end(start(m_selection, first.d3LIdx, first.d3LPos),
                         last.d3LIdx, last.d3LPos)
          /\ selectionBefore' =
                [status |-> "converted", range |-> Range(m_selection),
                 chars |-> SelectedChars(w, m_selection),
                 width |-> visibleTextWidth]
    /\ selectionSpace' = "d3l"
    /\ UNCHANGED <<selectionWindow, m_bSelectionInProgress>>
    /\ UNCHANGED mapperVars
    /\ UNCHANGED mergerVars
    /\ UNCHANGED scanVars
    /\ UNCHANGED lineRefVars
    /\ UNCHANGED alignVars
    /\ UNCHANGED bestFirstLineVars
    /\ UNCHANGED progressVars
    /\ UNCHANGED maxWidthVars
    /\ UNCHANGED wrapVars

\* A recalculation at some width that is neither cancelled nor loses a count:
\* every row's line count is raised to what the windows need, the tables
\* are filled (RestingTableIsWrapLines), and the last materializing step of
\* the window converts its selection to the new wrap lines.
RecalcWordWrapSelection ==
    /\ selectionSpace = "d3l"
    /\ \E width \in Widths :
        /\ visibleTextWidth' = width
        /\ linesNeededForDisplay' =
              [r \in Rows |->
                  LET c == MaxLineCount(lineLen, width, r, NumWindows)
                  IN IF NeedsMoreLines(linesNeededForDisplay[r], c)
                     THEN c ELSE linesNeededForDisplay[r]]
    /\ sumLinesNeededForDisplay' =
          [r \in Rows |-> SumTo(linesNeededForDisplay', r - 1)]
    /\ wrapLineVectorSize' = SumTo(linesNeededForDisplay', NumRows - 1)
    /\ m_diff3WrapLineVector' =
          [w \in Windows |->
              WrapLines(lineLen[w], linesNeededForDisplay', visibleTextWidth')]
    /\ UNCHANGED <<m_bWordWrap, selectionWindow, m_bSelectionInProgress>>
    /\ \E w \in {selectionWindow}, sel \in {Range(m_selection)} :
          LET first == convertD3LCoordsToLineCoords(w, sel.firstLine, sel.firstPos)'
              last == convertD3LCoordsToLineCoords(w, sel.lastLine, sel.lastPos)'
          IN m_selection' =
                IF isEmpty(m_selection) THEN m_selection
                ELSE end(start(m_selection, first.line, first.pos),
                         last.line, last.pos)
    /\ selectionSpace' = "wrapped"
    /\ selectionBefore' = [selectionBefore EXCEPT !.status = "restored"]
    /\ UNCHANGED mapperVars
    /\ UNCHANGED mergerVars
    /\ UNCHANGED scanVars
    /\ UNCHANGED lineRefVars
    /\ UNCHANGED alignVars
    /\ UNCHANGED bestFirstLineVars
    /\ UNCHANGED progressVars
    /\ UNCHANGED maxWidthVars
    /\ UNCHANGED <<lineLen, s_linesPerRunnable, m_wrapLineCacheList, s_runnables,
                   s_runnableCount, s_maxNofRunnables, runnable, m_bWasCancelled,
                   m_current, phase, nextWin, lndAtStart, finishCount, matResult,
                   assertFailed, oobRead>>

\* A wrapping window at rest without a selection.
InitSelection ==
    /\ RestingWindows
    /\ \A w \in Windows : m_bWordWrap[w]
    /\ lineQuery = NoLineQuery
    /\ selectionWindow \in Windows
    /\ m_selection = NoSelection
    /\ m_bSelectionInProgress = FALSE
    /\ selectionSpace = "wrapped"
    /\ selectionBefore = NoSelectionBefore
    /\ NoMergerState
    /\ NoScanState
    /\ NoLineRefState
    /\ NoAlignState
    /\ NoBestFirstLineState
    /\ NoProgressState
    /\ NoMaxWidthState

NextSelection ==
    \/ MousePress
    \/ MouseMove
    \/ MouseRelease
    \/ MouseDoubleClick
    \/ ResetSelection
    \/ ConvertSelectionToD3LCoords
    \/ RecalcWordWrapSelection

SpecSelection == InitSelection /\ [][NextSelection]_vars

\* The selection went through convertSelectionToD3LCoords and a recalculation.
Reprojected == selectionBefore.status = "restored" /\ ~isEmpty(selectionBefore.range)

\* C18: a selection that is not empty and went through
\* convertSelectionToD3LCoords and a recalculation is, if the width is the
\* one it was set at, the same range of lines and positions as before, and at
\* any width it covers the same characters as before.
C18_SelectionReprojected ==
    Reprojected =>
        /\ (visibleTextWidth = selectionBefore.width =>
                Range(m_selection) = selectionBefore.range)
        /\ SelectedChars(selectionWindow, m_selection) = selectionBefore.chars

\* Without a cancellation and a lost count the selection covers the same
\* characters after the recalculation, at every width: holds in SpecSelection.
C18_SameCharacters ==
    Reprojected =>
        SelectedChars(selectionWindow, m_selection) = selectionBefore.chars
\* ---- the Merger on its own ----
\* Merger::next
MergerNext ==
    /\ nextCalls < MaxSteps
    /\ md1' = update(pDiffList1, md1)
    /\ md2' = update(pDiffList2, md2)
    /\ nextCalls' = nextCalls + 1
    /\ UNCHANGED <<pDiffList1, pDiffList2>>
    /\ UNCHANGED scanVars
    /\ UNCHANGED lineRefVars
    /\ UNCHANGED alignVars
    /\ UNCHANGED bestFirstLineVars
    /\ UNCHANGED progressVars
    /\ UNCHANGED maxWidthVars
    /\ UNCHANGED mapperVars
    /\ UNCHANGED selectionVars
    /\ UNCHANGED wrapVars

\* The windows as constructed, without a query or a selection.
WindowsAsConstructed ==
    /\ lineLen = [w \in Windows |-> [r \in Rows |-> MaxTextLen]]
    /\ s_linesPerRunnable = 1
    /\ linesNeededForDisplay = [r \in Rows |-> InitialLinesNeeded]
    /\ sumLinesNeededForDisplay = [r \in Rows |-> 0]
    /\ m_bWordWrap = [w \in Windows |-> FALSE]
    /\ m_wrapLineCacheList = [w \in Windows |-> <<>>]
    /\ m_diff3WrapLineVector = [w \in Windows |-> <<>>]
    /\ s_runnables = <<>>
    /\ s_runnableCount = 0
    /\ s_maxNofRunnables = 0
    /\ runnable = [id \in RunnableIds |-> NoRunnable]
    /\ m_bWasCancelled = FALSE
    /\ m_current = 0
    /\ phase = "idle"
    /\ visibleTextWidth = 1
    /\ nextWin = 1
    /\ wrapLineVectorSize = 0
    /\ lndAtStart = [r \in Rows |-> InitialLinesNeeded]
    /\ finishCount = 0
    /\ matResult = [w \in Windows |-> NoMatResult]
    /\ assertFailed = FALSE
    /\ oobRead = FALSE
    /\ lineInFile = [w \in Windows |-> [r \in Rows |-> r]]
    /\ lineQuery = NoLineQuery
    /\ NoSelectionState

\* Merger::Merger on any two diff lists; the windows are as constructed.
InitMerger ==
    /\ pDiffList1 \in DiffLists
    /\ pDiffList2 \in DiffLists
    /\ md1 = MergeData(pDiffList1)
    /\ md2 = MergeData(pDiffList2)
    /\ nextCalls = 0
    /\ NoScanState
    /\ NoLineRefState
    /\ NoAlignState
    /\ NoBestFirstLineState
    /\ NoProgressState
    /\ NoMaxWidthState
    /\ WindowsAsConstructed

NextMerger == MergerNext

SpecMerger == InitMerger /\ [][NextMerger]_vars

\* The characters a diff list describes, and the kind of the run character
\* number k (from 0) lies in.
RECURSIVE LengthOfRuns(_, _)
LengthOfRuns(p, n) == IF n = 0 THEN 0 ELSE p.runs[n].len + LengthOfRuns(p, n - 1)
TotalLength(p) == LengthOfRuns(p, Len(p.runs))
InChangedRun(p, k) ==
    /\ ~p.null
    /\ \E n \in 1..Len(p.runs) :
          /\ LengthOfRuns(p, n - 1) <= k
          /\ k < LengthOfRuns(p, n)
          /\ p.runs[n].kind = "changed"

\* C19: after any number of next() calls whatChanged() is 0 if the character
\* reached lies in a changed run of neither diff list, has bit 1 (AChanged)
\* exactly if it lies in a changed run of the first list, and bit 2
\* (BChanged) exactly if it lies in a changed run of the second.
C19_WhatChangedBits ==
    LET a == InChangedRun(pDiffList1, nextCalls)
        b == InChangedRun(pDiffList2, nextCalls)
    IN /\ whatChanged \in {NoChange, AChanged, BChanged, AChanged + BChanged}
       /\ (whatChanged = NoChange) <=> (~a /\ ~b)
       /\ (whatChanged \in {AChanged, AChanged + BChanged}) <=> a
       /\ (whatChanged \in {BChanged, AChanged + BChanged}) <=> b

\* C19 witness: after some steps both cursors are in changed runs that are
\* not the first runs of their lists.
C19_Witness ==
    /\ nextCalls > 0
    /\ whatChanged = AChanged + BChanged
    /\ md1.run > 1
    /\ md2.run > 1

\* C20: after any number of next() calls isEndReached() is true exactly if
\* the calls have used up every character of both diff lists, and so is false
\* while either list has characters left; a null list never runs out.
C20_EndWhenBothExhausted ==
    isEndReached <=>
        /\ ~pDiffList1.null /\ nextCalls >= TotalLength(pDiffList1)
        /\ ~pDiffList2.null /\ nextCalls >= TotalLength(pDiffList2)

\* C20 witness: the end is reached with the next() call that uses up the
\* longer list, after the shorter one had run out.
C20_Witness ==
    /\ isEndReached
    /\ TotalLength(pDiffList1) > 0
    /\ TotalLength(pDiffList2) > TotalLength(pDiffList1)
    /\ nextCalls = TotalLength(pDiffList2)
C22_EndAfterShorterList ==
    (~pDiffList1.null /\ ~pDiffList2.null) =>
        (isEndReached <=>
            nextCalls >= Min(TotalLength(pDiffList1), TotalLength(pDiffList2)))
\* ---- the classification loop of writeLine ----
\* Variant: the loop goes on to the end of the line.
ScanContinues_UntilLineEnd == scan_i < Len(charChanged)

\* while(!merger.isEndReached() && i < pld->size())
ScanContinues == ~isEndReached /\ scan_i < Len(charChanged)

\* One turn of the loop: charChanged[i] = merger.whatChanged() and ++i if i
\* is inside the line, then merger.next().
ScanChar ==
    /\ ScanContinues
    /\ IF scan_i < Len(charChanged)
       THEN /\ charChanged' = [k \in 1..Len(charChanged) |->
                                  IF k = scan_i + 1 THEN whatChanged ELSE charChanged[k]]
            /\ scan_i' = scan_i + 1
            /\ wroteOutside' = (wroteOutside \/ scan_i + 1 \notin DOMAIN charChanged)
       ELSE UNCHANGED <<charChanged, scan_i, wroteOutside>>
    /\ md1' = update(pDiffList1, md1)
    /\ md2' = update(pDiffList2, md2)
    /\ nextCalls' = nextCalls + 1
    /\ UNCHANGED <<pDiffList1, pDiffList2>>
    /\ UNCHANGED lineRefVars
    /\ UNCHANGED alignVars
    /\ UNCHANGED bestFirstLineVars
    /\ UNCHANGED progressVars
    /\ UNCHANGED maxWidthVars
    /\ UNCHANGED mapperVars
    /\ UNCHANGED selectionVars
    /\ UNCHANGED wrapVars

\* QVector<ChangeFlags> charChanged(pld->size()) and Merger merger(pLineDiff1,
\* pLineDiff2) for a line of any size and any two diff lists.
InitScan ==
    /\ pDiffList1 \in DiffLists
    /\ pDiffList2 \in DiffLists
    /\ md1 = MergeData(pDiffList1)
    /\ md2 = MergeData(pDiffList2)
    /\ nextCalls = 0
    /\ \E size \in 0..MaxLineSize : charChanged = [k \in 1..size |-> NoChange]
    /\ scan_i = 0
    /\ wroteOutside = FALSE
    /\ NoLineRefState
    /\ NoAlignState
    /\ NoBestFirstLineState
    /\ NoProgressState
    /\ NoMaxWidthState
    /\ WindowsAsConstructed

NextScan == ScanChar

SpecScan == InitScan /\ [][NextScan]_vars

\* whatChanged() for character number k of the line, by the runs it lies in.
ChangeAt(k) ==
    (IF InChangedRun(pDiffList1, k) THEN AChanged ELSE NoChange) +
    (IF InChangedRun(pDiffList2, k) THEN BChanged ELSE NoChange)
\* The number of next() calls that brings isEndReached(); none for a null list.
EndsBefore(k) ==
    /\ ~pDiffList1.null /\ ~pDiffList2.null
    /\ TotalLength(pDiffList1) <= k /\ TotalLength(pDiffList2) <= k

\* C23: the classification loop of writeLine writes charChanged inside the
\* line only, goes on exactly until the line ends or isEndReached() holds,
\* whichever is earlier, gives every character it covers the whatChanged() of
\* its step and leaves the others at 0; with the lists [equal(3), changed(2)]
\* and null over 5 characters it yields 0, 0, 0, AChanged, AChanged.
C23_ScanClassifiesLine ==
    LET size == Len(charChanged)
    IN /\ ~wroteOutside
       /\ scan_i <= size
       /\ nextCalls = scan_i
       /\ ScanContinues <=> (scan_i < size /\ ~EndsBefore(scan_i))
       /\ \A k \in 1..size :
             charChanged[k] = IF k <= scan_i THEN ChangeAt(k - 1) ELSE NoChange
       /\ (/\ pDiffList1.runs = <<[kind |-> "equal", len |-> 3],
                                   [kind |-> "changed", len |-> 2]>>
            /\ pDiffList2.null
            /\ size = 5
            /\ ~ScanContinues)
          => charChanged = <<NoChange, NoChange, NoChange, AChanged, AChanged>>

\* C23 witness: the scan of the lists [equal(3), changed(2)] and null over 5
\* characters has come to its end.
C23_Witness ==
    /\ pDiffList1.runs = <<[kind |-> "equal", len |-> 3], [kind |-> "changed", len |-> 2]>>
    /\ pDiffList2.null
    /\ Len(charChanged) = 5
    /\ scan_i = 5
    /\ ~ScanContinues
    /\ charChanged[5] = AChanged

\* C23 witness of the other end: the lists ran out before the line, and the
\* characters behind are left unchanged.
C23_StoppedByLists ==
    /\ isEndReached
    /\ 0 < scan_i /\ scan_i < Len(charChanged)
    /\ \E k \in 1..scan_i : charChanged[k] # NoChange
\* ---- the operations of LineRef ----
LineRefUnchanged ==
    /\ UNCHANGED alignVars
    /\ UNCHANGED bestFirstLineVars
    /\ UNCHANGED progressVars
    /\ UNCHANGED maxWidthVars
    /\ UNCHANGED mapperVars
    /\ UNCHANGED mergerVars
    /\ UNCHANGED scanVars
    /\ UNCHANGED selectionVars
    /\ UNCHANGED wrapVars

\* A constructor makes a new LineRef holding n.
Constructed(name, arg, n) ==
    /\ mLineNumber' = n
    /\ lineRefOp' = LineRefOp(name, mLineNumber, arg, n)
    /\ nLineRefOps' = 0
    /\ LineRefUnchanged

\* An operation on the LineRef leaves n in it and returns ret.
Operated(name, arg, n, ret) ==
    /\ nLineRefOps < MaxLineRefOps
    /\ mLineNumber' = n
    /\ lineRefOp' = LineRefOp(name, mLineNumber, arg, ret)
    /\ nLineRefOps' = nLineRefOps + 1
    /\ LineRefUnchanged

\* LineRef() = default, with SafeInt<LineType> mLineNumber = invalid
ConstructDefault == Constructed("LineRef()", Widen(0), invalid)

\* LineRef(const LineType i)
ConstructFromLineType == \E n \in LineTypes : Constructed("LineRef(LineType)", Widen(n), n)

\* LineRef(const quint64 i)
ConstructFromQuint64 == \E w \in Quint64s : Constructed("LineRef(quint64)", w, FromQuint64(w))

\* LineRef(const qint64 i)
ConstructFromQint64 == \E w \in Qint64s : Constructed("LineRef(qint64)", w, FromQint64(w))

\* operator=(const LineType lineIn)
AssignLineType == \E n \in LineTypes : Operated("=", Widen(n), n, n)

\* operator+=(const LineType& inLine)
AddAssign ==
    \E n \in {-1, 1, 2} : \E sum \in {SafeAdd(mLineNumber, n)} :
        Operated("+=", Widen(n), sum, sum)

\* operator++()
PreIncrement ==
    \E sum \in {SafeAdd(mLineNumber, 1)} : Operated("++x", Widen(1), sum, sum)

\* operator++(int): returns the line as it was
PostIncrement ==
    \E sum \in {SafeAdd(mLineNumber, 1)} : Operated("x++", Widen(1), sum, mLineNumber)

\* operator--()
PreDecrement ==
    \E sum \in {SafeAdd(mLineNumber, -1)} : Operated("--x", Widen(-1), sum, sum)

\* operator--(int): returns the line as it was
PostDecrement ==
    \E sum \in {SafeAdd(mLineNumber, -1)} : Operated("x--", Widen(-1), sum, mLineNumber)

\* invalidate()
Invalidate == Operated("invalidate()", Widen(0), invalid, invalid)

InitLineRef ==
    /\ NoLineRefState
    /\ NoAlignState
    /\ NoBestFirstLineState
    /\ NoProgressState
    /\ NoMaxWidthState
    /\ NoMergerState
    /\ NoScanState
    /\ WindowsAsConstructed

NextLineRef ==
    \/ ConstructDefault
    \/ ConstructFromLineType
    \/ ConstructFromQuint64
    \/ ConstructFromQint64
    \/ AssignLineType
    \/ AddAssign
    \/ PreIncrement
    \/ PostIncrement
    \/ PreDecrement
    \/ PostDecrement
    \/ Invalidate

SpecLineRef == InitLineRef /\ [][NextLineRef]_vars

\* C24: a LineRef constructed from a 64 bit signed or unsigned v holds v when
\* 0 <= v <= 2^31 - 1 and holds the invalid sentinel -1 for every other v, so
\* never the image of v modulo 2^32.
C24_RangeCheckedConstruction ==
    lineRefOp.op \in {"LineRef(quint64)", "LineRef(qint64)"} =>
        LET v == lineRefOp.arg
        IN IF v.hi = 0 THEN mLineNumber = v.lo ELSE mLineNumber = -1

\* C24 witness: a LineRef constructed from 2 * 2^31 + 1, whose image modulo
\* 2^32 would be the line 1, is invalid.
C24_Witness ==
    /\ lineRefOp.op = "LineRef(quint64)"
    /\ lineRefOp.arg = [hi |-> 2, lo |-> 1]
    /\ mLineNumber = invalid
IncDecOps == {"++x", "x++", "--x", "x--"}

\* C25: a default-constructed LineRef is invalid, invalidate() makes any
\* LineRef invalid, and isValid() is false exactly when the stored value is
\* the sentinel -1.
C25_InvalidIsTheSentinel ==
    /\ lineRefOp.op = "LineRef()" => ~isValid(mLineNumber)
    /\ lineRefOp.op = "invalidate()" => ~isValid(mLineNumber)
    /\ ~isValid(mLineNumber) <=> mLineNumber = -1

\* C25 witness: invalidate() on a valid line.
C25_Witness ==
    /\ lineRefOp.op = "invalidate()"
    /\ lineRefOp.before >= 0
    /\ ~isValid(mLineNumber)

\* C25 witness: a negative value other than -1 counts as valid.
C25_NegativeButValid == mLineNumber = -2 /\ isValid(mLineNumber)

\* C26: an increment or decrement leaves an invalid LineRef invalid and never
\* makes a valid LineRef of the range 0..2^31 - 1 invalid.
C26_SentinelPreserved ==
    lineRefOp.op \in IncDecOps =>
        /\ ~isValid(lineRefOp.before) => ~isValid(mLineNumber)
        /\ (isValid(lineRefOp.before) /\ lineRefOp.before \in 0..LineTypeMax)
              => isValid(mLineNumber)

LexLess(l1, p1, l2, p2) == l1 < l2 \/ (l1 = l2 /\ p1 < p2)
LexLessEq(l1, p1, l2, p2) == l1 < l2 \/ (l1 = l2 /\ p1 <= p2)

\* The points a selection is asked about: every line and position of the
\* text and the ones just outside.
SelectionPoints == ((-1)..(NumRows * MaxTextLen + 1)) \X (0..(MaxTextLen + 1))

\* C28: no point is within a selection that was never started or was reset;
\* a point is within any other selection exactly when it is at or after the
\* range's begin and before its end, in the order of lines, then positions.
C28_WithinIsHalfOpenRange ==
    \A pt \in SelectionPoints :
        within(m_selection, pt[1], pt[2]) <=>
            /\ m_selection # NoSelection
            /\ LexLessEq(beginLine(m_selection), beginPos(m_selection), pt[1], pt[2])
            /\ LexLess(pt[1], pt[2], endLine(m_selection), endPos(m_selection))

\* C28 witness: a selection drawn backwards over more than one line; its
\* begin is within it, its end is not.
C28_Witness ==
    /\ m_selection.firstLine > m_selection.lastLine
    /\ m_selection.lastLine >= 0
    /\ within(m_selection, beginLine(m_selection), beginPos(m_selection))
    /\ ~within(m_selection, endLine(m_selection), endPos(m_selection))

\* C28 witness of the empty case: the selection was reset while the button
\* is held.
C28_ResetWhileHeld == m_bSelectionInProgress /\ m_selection = NoSelection

\* C29: whatever the order the two points were set in, the begin of the
\* range is at or before its end in the order of lines, then positions, and
\* the range of a range is that range.
C29_RangeIsOrdered ==
    /\ LexLessEq(beginLine(m_selection), beginPos(m_selection),
                 endLine(m_selection), endPos(m_selection))
    /\ Range(Range(m_selection)) = Range(m_selection)

\* C29 witness: the last point is on the line of the first, at an earlier
\* position, and the range begins at the last point.
C29_Witness ==
    /\ m_selection.firstLine = m_selection.lastLine
    /\ m_selection.firstLine # invalid
    /\ m_selection.lastPos < m_selection.firstPos
    /\ beginPos(m_selection) = m_selection.lastPos
    /\ endPos(m_selection) = m_selection.firstPos
\* The state of the window's selection: empty without a first line, in
\* progress while the button that started it is held, else finalized.
SelectionState ==
    IF m_selection.firstLine = invalid THEN "empty"
    ELSE IF m_bSelectionInProgress THEN "in-progress"
    ELSE "finalized"

\* C30: every step that changes the selection is one of three: a start,
\* which leaves the selection in progress whatever it was; an end on a
\* selection in progress, which leaves it in progress with the same first
\* point; a reset, which leaves it empty.
C30_SelectionStateMachine ==
    [][\/ UNCHANGED <<m_selection, m_bSelectionInProgress>>
       \/ SelectionState' = "empty"
       \/ /\ SelectionState' = "in-progress"
          /\ SelectionState = "in-progress" =>
                /\ m_selection'.firstLine = m_selection.firstLine
                /\ m_selection'.firstPos = m_selection.firstPos]_vars

\* ---- building the alignment table ----
\* The diff the next row comes from: the rest of the current one, or the next
\* of the list.
CurrentDiff(c) == IF c.d = NoDiff THEN pDiffListAB[c.taken + 1] ELSE c.d

\* Variant: a line only in B is followed by the line after the next.
NextDiff3Line_SkipsLineOfB(c) ==
    LET d == CurrentDiff(c)
        taken == IF c.d = NoDiff THEN c.taken + 1 ELSE c.taken
    IN IF d.numberOfEquals > 0
       THEN [row |-> [lineA |-> c.lineA, lineB |-> c.lineB],
             cursor |-> [taken |-> taken,
                         d |-> [d EXCEPT !.numberOfEquals = @ - 1],
                         lineA |-> c.lineA + 1, lineB |-> c.lineB + 1]]
       ELSE IF d.diff1 > 0 /\ d.diff2 > 0
       THEN [row |-> [lineA |-> c.lineA, lineB |-> c.lineB],
             cursor |-> [taken |-> taken,
                         d |-> [d EXCEPT !.diff1 = @ - 1, !.diff2 = @ - 1],
                         lineA |-> c.lineA + 1, lineB |-> c.lineB + 1]]
       ELSE IF d.diff1 > 0
       THEN [row |-> [lineA |-> c.lineA, lineB |-> invalid],
             cursor |-> [taken |-> taken, d |-> [d EXCEPT !.diff1 = @ - 1],
                         lineA |-> c.lineA + 1, lineB |-> c.lineB]]
       ELSE [row |-> [lineA |-> invalid, lineB |-> c.lineB],
             cursor |-> [taken |-> taken, d |-> [d EXCEPT !.diff2 = @ - 1],
                         lineA |-> c.lineA, lineB |-> c.lineB + 2]]

\* Variant: a line only in A is not counted.
NextDiff3Line_RepeatsLineOfA(c) ==
    LET d == CurrentDiff(c)
        taken == IF c.d = NoDiff THEN c.taken + 1 ELSE c.taken
    IN IF d.numberOfEquals > 0
       THEN [row |-> [lineA |-> c.lineA, lineB |-> c.lineB],
             cursor |-> [taken |-> taken,
                         d |-> [d EXCEPT !.numberOfEquals = @ - 1],
                         lineA |-> c.lineA + 1, lineB |-> c.lineB + 1]]
       ELSE IF d.diff1 > 0 /\ d.diff2 > 0
       THEN [row |-> [lineA |-> c.lineA, lineB |-> c.lineB],
             cursor |-> [taken |-> taken,
                         d |-> [d EXCEPT !.diff1 = @ - 1, !.diff2 = @ - 1],
                         lineA |-> c.lineA + 1, lineB |-> c.lineB + 1]]
       ELSE IF d.diff1 > 0
       THEN [row |-> [lineA |-> c.lineA, lineB |-> invalid],
             cursor |-> [taken |-> taken, d |-> [d EXCEPT !.diff1 = @ - 1],
                         lineA |-> c.lineA, lineB |-> c.lineB]]
       ELSE [row |-> [lineA |-> invalid, lineB |-> c.lineB],
             cursor |-> [taken |-> taken, d |-> [d EXCEPT !.diff2 = @ - 1],
                         lineA |-> c.lineA, lineB |-> c.lineB + 1]]

\* The next row of the table: an equal line of both files, else a changed
\* line of both, else a line only in A, else a line only in B.
NextDiff3Line(c) ==
    LET d == CurrentDiff(c)
        taken == IF c.d = NoDiff THEN c.taken + 1 ELSE c.taken
    IN IF d.numberOfEquals > 0
       THEN [row |-> [lineA |-> c.lineA, lineB |-> c.lineB],
             cursor |-> [taken |-> taken,
                         d |-> [d EXCEPT !.numberOfEquals = @ - 1],
                         lineA |-> c.lineA + 1, lineB |-> c.lineB + 1]]
       ELSE IF d.diff1 > 0 /\ d.diff2 > 0
       THEN [row |-> [lineA |-> c.lineA, lineB |-> c.lineB],
             cursor |-> [taken |-> taken,
                         d |-> [d EXCEPT !.diff1 = @ - 1, !.diff2 = @ - 1],
                         lineA |-> c.lineA + 1, lineB |-> c.lineB + 1]]
       ELSE IF d.diff1 > 0
       THEN [row |-> [lineA |-> c.lineA, lineB |-> invalid],
             cursor |-> [taken |-> taken, d |-> [d EXCEPT !.diff1 = @ - 1],
                         lineA |-> c.lineA + 1, lineB |-> c.lineB]]
       ELSE [row |-> [lineA |-> invalid, lineB |-> c.lineB],
             cursor |-> [taken |-> taken, d |-> [d EXCEPT !.diff2 = @ - 1],
                         lineA |-> c.lineA, lineB |-> c.lineB + 1]]

\* The table is complete: every diff is used up.
AlignDone == alignCursor.d = NoDiff /\ alignCursor.taken = Len(pDiffListAB)

AlignUnchanged ==
    /\ UNCHANGED bestFirstLineVars
    /\ UNCHANGED progressVars
    /\ UNCHANGED maxWidthVars
    /\ UNCHANGED lineRefVars
    /\ UNCHANGED mapperVars
    /\ UNCHANGED mergerVars
    /\ UNCHANGED scanVars
    /\ UNCHANGED selectionVars
    /\ UNCHANGED wrapVars

\* The builder appends one row.
AddDiff3Line ==
    /\ ~AlignDone
    /\ \E next \in {NextDiff3Line(alignCursor)} :
          /\ d3ll' = Append(d3ll, next.row)
          /\ alignCursor' = next.cursor
    /\ UNCHANGED pDiffListAB
    /\ AlignUnchanged

InitAlign ==
    /\ pDiffListAB \in DiffListsAB
    /\ d3ll = <<>>
    /\ alignCursor = AlignStart
    /\ NoBestFirstLineState
    /\ NoProgressState
    /\ NoMaxWidthState
    /\ NoLineRefState
    /\ NoMergerState
    /\ NoScanState
    /\ WindowsAsConstructed

NextAlign == AddDiff3Line

SpecAlign == InitAlign /\ [][NextAlign]_vars

\* The line counts of the two files by the diff list.
RECURSIVE SizeOfA(_)
SizeOfA(n) ==
    IF n = 0 THEN 0
    ELSE pDiffListAB[n].numberOfEquals + pDiffListAB[n].diff1 + SizeOfA(n - 1)
RECURSIVE SizeOfB(_)
SizeOfB(n) ==
    IF n = 0 THEN 0
    ELSE pDiffListAB[n].numberOfEquals + pDiffListAB[n].diff2 + SizeOfB(n - 1)

RowsOfLineA(k) == {r \in 1..Len(d3ll) : d3ll[r].lineA = k}
RowsOfLineB(k) == {r \in 1..Len(d3ll) : d3ll[r].lineB = k}

CDiv(a, b) == IF a >= 0 THEN a \div b ELSE -((-a) \div b)

\* Variant: the range needs no margin of two lines below it.
getBestFirstLine_NoMargin(line, nofLines, firstLine, visibleLines) ==
    IF line < firstLine \/ line + nofLines > firstLine + visibleLines
    THEN IF nofLines > visibleLines \/ nofLines <= CDiv(2 * visibleLines, 3) - 1
         THEN line - CDiv(visibleLines, 3)
         ELSE line - (visibleLines - nofLines)
    ELSE firstLine

\* getBestFirstLine(line, nofLines, firstLine, visibleLines)
getBestFirstLine(line, nofLines, firstLine, visibleLines) ==
    IF line < firstLine \/ line + nofLines + 2 > firstLine + visibleLines
    THEN IF nofLines > visibleLines \/ nofLines <= CDiv(2 * visibleLines, 3) - 1
         THEN line - CDiv(visibleLines, 3)
         ELSE line - (visibleLines - nofLines)
    ELSE firstLine

BestFirstLineUnchanged ==
    /\ UNCHANGED progressVars
    /\ UNCHANGED maxWidthVars
    /\ UNCHANGED alignVars
    /\ UNCHANGED lineRefVars
    /\ UNCHANGED mapperVars
    /\ UNCHANGED mergerVars
    /\ UNCHANGED scanVars
    /\ UNCHANGED selectionVars
    /\ UNCHANGED wrapVars

\* The call of setFastSelectorRange with the arguments it has prepared.
GetBestFirstLine ==
    /\ ~bestFirstLine.called
    /\ bestFirstLine' =
          [bestFirstLine EXCEPT
              !.called = TRUE,
              !.newFirstLine = getBestFirstLine(bestFirstLine.line, bestFirstLine.nofLines,
                                                bestFirstLine.firstLine,
                                                bestFirstLine.visibleLines)]
    /\ BestFirstLineUnchanged

\* The arguments as setFastSelectorRange prepares them: a first line and a
\* number of lines of the range, the window's first line, and
\* getNofVisibleLines(), which is -1 for a window lower than one line.
InitBestFirstLine ==
    /\ bestFirstLine \in
          [called : {FALSE}, line : 0..MaxLine, nofLines : 0..MaxLine,
           firstLine : 0..MaxLine, visibleLines : (-1)..MaxVisibleLines,
           newFirstLine : {0}]
    /\ NoProgressState
    /\ NoMaxWidthState
    /\ NoAlignState
    /\ NoLineRefState
    /\ NoMergerState
    /\ NoScanState
    /\ WindowsAsConstructed

NextBestFirstLine == GetBestFirstLine

SpecBestFirstLine == InitBestFirstLine /\ [][NextBestFirstLine]_vars

\* C33: getBestFirstLine returns firstLine when the range fits the visible
\* area (line >= firstLine and line + nofLines + 2 <= firstLine +
\* visibleLines); otherwise line - visibleLines / 3 when nofLines >
\* visibleLines or nofLines <= 2 * visibleLines / 3 - 1, and
\* line - (visibleLines - nofLines) in the remaining case.
C33_BestFirstLine ==
    bestFirstLine.called =>
        LET c == bestFirstLine
            fits == /\ c.line >= c.firstLine
                    /\ c.line + c.nofLines + 2 <= c.firstLine + c.visibleLines
            third == CDiv(c.visibleLines, 3)
            twoThirds == CDiv(2 * c.visibleLines, 3)
        IN /\ fits => c.newFirstLine = c.firstLine
           /\ (~fits /\ (c.nofLines > c.visibleLines \/ c.nofLines <= twoThirds - 1))
                 => c.newFirstLine = c.line - third
           /\ (~fits /\ c.nofLines <= c.visibleLines /\ c.nofLines > twoThirds - 1)
                 => c.newFirstLine = c.line - (c.visibleLines - c.nofLines)

\* C33 witness: a range of 4 lines from line 3 in a window of 6 visible
\* lines from line 0 does not fit with its margin and is put at the bottom.
C33_Witness ==
    /\ bestFirstLine.called
    /\ bestFirstLine.line = 3 /\ bestFirstLine.nofLines = 4
    /\ bestFirstLine.firstLine = 0 /\ bestFirstLine.visibleLines = 6
    /\ bestFirstLine.newFirstLine = 1
\* C39: a LineRef for which isValid() holds has a line number that is not
\* negative, whatever constructors, assignments, additions, increments and
\* decrements produced it.
C39_ValidIsNonNegative == isValid(mLineNumber) => mLineNumber >= 0
\* ---- the cancellation flag of ProgressDialog ----
ProgressUnchanged ==
    /\ UNCHANGED maxWidthVars
    /\ UNCHANGED alignVars
    /\ UNCHANGED bestFirstLineVars
    /\ UNCHANGED lineRefVars
    /\ UNCHANGED mapperVars
    /\ UNCHANGED mergerVars
    /\ UNCHANGED scanVars
    /\ UNCHANGED selectionVars
    /\ UNCHANGED <<lineLen, s_linesPerRunnable, linesNeededForDisplay,
                   sumLinesNeededForDisplay, m_bWordWrap, m_wrapLineCacheList,
                   m_diff3WrapLineVector, s_runnables, s_runnableCount,
                   s_maxNofRunnables, runnable, phase, visibleTextWidth, nextWin,
                   wrapLineVectorSize, lndAtStart, finishCount, matResult,
                   assertFailed, oobRead>>

\* Variant: every push() starts with a clear flag.
WasCancelledAfterPush_AlwaysCleared(stack, wasCancelled) == FALSE

\* m_bWasCancelled after push(): cleared when the stack was empty.
WasCancelledAfterPush(stack, wasCancelled) ==
    IF Len(stack) # 0 THEN wasCancelled ELSE FALSE

\* ProgressDialog::push
ProgressPush ==
    /\ Len(m_progressStack) < MaxProgressLevels
    /\ m_bWasCancelled' = WasCancelledAfterPush(m_progressStack, m_bWasCancelled)
    /\ m_progressStack' = Append(m_progressStack, 0)
    /\ progressOp' = [op |-> "push", ret |-> FALSE]
    /\ cancelPending' = (cancelPending /\ Len(m_progressStack) # 0)
    /\ UNCHANGED m_current
    /\ ProgressUnchanged

\* ProgressDialog::pop
ProgressPop ==
    /\ m_progressStack' =
          IF Len(m_progressStack) # 0
          THEN SubSeq(m_progressStack, 1, Len(m_progressStack) - 1)
          ELSE m_progressStack
    /\ progressOp' = [op |-> "pop", ret |-> FALSE]
    /\ UNCHANGED <<m_bWasCancelled, m_current, cancelPending>>
    /\ ProgressUnchanged

\* ProgressDialog::step
ProgressStep ==
    /\ Len(m_progressStack) # 0 => m_progressStack[Len(m_progressStack)] < MaxProgressCurrent
    /\ m_progressStack' =
          IF Len(m_progressStack) # 0
          THEN [m_progressStack EXCEPT ![Len(m_progressStack)] = @ + 1]
          ELSE m_progressStack
    /\ progressOp' = [op |-> "step", ret |-> FALSE]
    /\ UNCHANGED <<m_bWasCancelled, m_current, cancelPending>>
    /\ ProgressUnchanged

\* ProgressDialog::setCurrent
ProgressSetCurrent ==
    /\ \E subCurrent \in 0..MaxProgressCurrent :
          IF Len(m_progressStack) # 0
          THEN /\ m_progressStack' =
                     [m_progressStack EXCEPT ![Len(m_progressStack)] = subCurrent]
               /\ m_current' = subCurrent
          ELSE UNCHANGED <<m_progressStack, m_current>>
    /\ progressOp' = [op |-> "setCurrent", ret |-> FALSE]
    /\ UNCHANGED <<m_bWasCancelled, cancelPending>>
    /\ ProgressUnchanged

\* ProgressDialog::cancel, also through reject() and slotAbort()
ProgressCancel ==
    /\ m_bWasCancelled' = TRUE
    /\ progressOp' = [op |-> "cancel", ret |-> FALSE]
    /\ cancelPending' = TRUE
    /\ UNCHANGED <<m_progressStack, m_current>>
    /\ ProgressUnchanged

\* ProgressDialog::clearCancelState
ProgressClearCancelState ==
    /\ m_bWasCancelled' = FALSE
    /\ progressOp' = [op |-> "clearCancelState", ret |-> FALSE]
    /\ cancelPending' = FALSE
    /\ UNCHANGED <<m_progressStack, m_current>>
    /\ ProgressUnchanged

\* ProgressDialog::wasCancelled on a pool thread, and on the GUI thread when
\* processEvents() is not due or has nothing to deliver.
ProgressWasCancelled ==
    /\ progressOp' = [op |-> "wasCancelled", ret |-> m_bWasCancelled]
    /\ UNCHANGED <<m_bWasCancelled, m_progressStack, m_current, cancelPending>>
    /\ ProgressUnchanged

\* ProgressDialog::wasCancelled on the GUI thread when processEvents()
\* delivers the click on the abort button: reject() calls cancel().
ProgressWasCancelledAborted ==
    /\ m_bWasCancelled' = TRUE
    /\ cancelPending' = TRUE
    /\ progressOp' = [op |-> "wasCancelled", ret |-> TRUE]
    /\ UNCHANGED <<m_progressStack, m_current>>
    /\ ProgressUnchanged

InitProgress ==
    /\ NoProgressState
    /\ NoMaxWidthState
    /\ NoBestFirstLineState
    /\ NoAlignState
    /\ NoLineRefState
    /\ NoMergerState
    /\ NoScanState
    /\ WindowsAsConstructed

NextProgress ==
    \/ ProgressPush
    \/ ProgressPop
    \/ ProgressStep
    \/ ProgressSetCurrent
    \/ ProgressCancel
    \/ ProgressClearCancelState
    \/ ProgressWasCancelled
    \/ ProgressWasCancelledAborted

SpecProgress == InitProgress /\ [][NextProgress]_vars

\* C40: after cancel() the flag stays set, and wasCancelled() returns true,
\* until clearCancelState() or a push() on an empty progress stack; a push()
\* on a stack that is not empty, pop(), setCurrent() and step() leave it set.
C40_CancelIsSticky ==
    cancelPending =>
        /\ m_bWasCancelled
        /\ progressOp.op = "wasCancelled" => progressOp.ret

\* C40 witness: the flag is still set after a cancel() and a later push() on
\* a stack that is not empty.
C40_Witness ==
    /\ cancelPending
    /\ progressOp.op = "push"
    /\ Len(m_progressStack) = 2
    /\ m_bWasCancelled

\* ---- C35: measuring mode partitions the rows into chunks ----
\* ceil(NumRows / s_linesPerRunnable): the least n with
\* n * s_linesPerRunnable >= NumRows.
CeilOfRowsPerRunnable ==
    CHOOSE n \in 0..NumRows :
        /\ n * s_linesPerRunnable >= NumRows
        /\ \A m \in 0..(n - 1) : m * s_linesPerRunnable < NumRows
\* The rows of chunk j as the claim states them.
RowsOfChunk(j) ==
    {i \in Rows : /\ j * s_linesPerRunnable <= i
                  /\ i < Min((j + 1) * s_linesPerRunnable, NumRows)}
\* The windows whose measuring request of this recalculation was made.
MeasuringQueued(w) ==
    \/ phase = "queue" /\ w < nextWin
    \/ phase = "running"
\* The rows whose layout lines are in a cache slice.
RowsInSlice(slice) == {slice[k].d3LineIdx : k \in 1..Len(slice)}

\* C35: a measuring request of a window makes exactly
\* ceil(rowCount / s_linesPerRunnable) cache slices and workers; worker j works
\* on rows of [j * s_linesPerRunnable, min((j + 1) * s_linesPerRunnable,
\* rowCount)) only and, when it was not cancelled, on all of them; every row is
\* in exactly one chunk.
C35_ChunksPartitionRows ==
    \A w \in Windows :
        MeasuringQueued(w) =>
            /\ Len(m_wrapLineCacheList[w]) = CeilOfRowsPerRunnable
            /\ {id \in RunnableIds : id[1] = w /\ runnable[id].pc # "none"} =
                   {w} \X (0..(CeilOfRowsPerRunnable - 1))
            /\ phase = "queue" =>
                   Cardinality({k \in 1..Len(s_runnables) : s_runnables[k][1] = w}) =
                       CeilOfRowsPerRunnable
            /\ \A i \in Rows :
                   Cardinality({j \in 0..(CeilOfRowsPerRunnable - 1) :
                                   i \in RowsOfChunk(j)}) = 1
            /\ \A j \in 0..(CeilOfRowsPerRunnable - 1) :
                   LET r == runnable[<<w, j>>]
                       slice == m_wrapLineCacheList[w][j + 1]
                   IN /\ r.pc \in {"row", "write"} => r.i \in RowsOfChunk(j)
                      /\ RowsInSlice(slice) \subseteq RowsOfChunk(j)
                      /\ (r.pc \in {"dec", "load", "set", "done"} /\ ~r.sawCancel) =>
                             RowsInSlice(slice) = RowsOfChunk(j)

\* A worker that was not cancelled finished a last chunk that is shorter than
\* s_linesPerRunnable.
C35_Witness ==
    /\ phase = "running"
    /\ NumRows % s_linesPerRunnable # 0
    /\ \E w \in Windows :
          LET j == CeilOfRowsPerRunnable - 1 IN
          /\ runnable[<<w, j>>].pc = "done"
          /\ ~runnable[<<w, j>>].sawCancel
          /\ RowsInSlice(m_wrapLineCacheList[w][j + 1]) = RowsOfChunk(j)
          /\ Cardinality(RowsOfChunk(j)) < s_linesPerRunnable

\* ---- C36: materializing finds no more cached lines than a row needs ----
\* C36: while the windows are materialized, no window holds more cached lines
\* for a row than the row's linesNeededForDisplay, the assertion guarding
\* setLinesNeeded was never violated, and a materializing call leaves every
\* row's linesNeededForDisplay as the measuring workers left it.
C36_MaterializingNeverRaises ==
    /\ ~assertFailed
    /\ phase = "materialize" =>
          \A w \in Windows, r \in Rows :
              Len(CachedLines(w, r)) <= linesNeededForDisplay[r]
    /\ (\E w \in Windows : matResult[w].status # "none") =>
          wrapLineVectorSize = SumTo(linesNeededForDisplay, NumRows - 1)

\* ---- C38: converting row coordinates stays within the row ----
\* The conversion of (row, offset) in window w ends, without a read outside
\* the table, at a visual line of the table that belongs to the row.
EndsInRow(w, r, off) ==
    LET a == convertD3LCoordsToLineCoords(w, r, off) IN
    /\ ~a.oob
    /\ a.line + 1 \in DOMAIN m_diff3WrapLineVector[w]
    /\ m_diff3WrapLineVector[w][a.line + 1].diff3LineIndex = r

\* C38: in a wrapping window with a materialized table,
\* convertD3LCoordsToLineCoords of every row and every offset from 0 to the
\* length of the row's text ends at a visual line of that row and reads no
\* entry beyond the last one of the WrapLineTable.
C38_ConversionStaysInRow ==
    \A w \in Windows : (m_bWordWrap[w] /\ Materialized(w)) =>
        \A r \in Rows : \A off \in 0..lineLen[w][r] : EndsInRow(w, r, off)
C38_OnlyAfterLostUpdate == LostUpdateSeen \/ C38_ConversionStaysInRow

\* ---- recalculation of a window without word wrap ----
\* What the recalculation without word wrap leaves alone.
MaxWidthUnchanged ==
    /\ UNCHANGED alignVars
    /\ UNCHANGED bestFirstLineVars
    /\ UNCHANGED lineRefVars
    /\ UNCHANGED mapperVars
    /\ UNCHANGED mergerVars
    /\ UNCHANGED progressVars
    /\ UNCHANGED scanVars
    /\ UNCHANGED <<selectionWindow, m_bSelectionInProgress, selectionSpace,
                   selectionBefore>>
    /\ UNCHANGED <<lineLen, s_linesPerRunnable, linesNeededForDisplay,
                   sumLinesNeededForDisplay, runnable, phase, visibleTextWidth,
                   nextWin, wrapLineVectorSize, lndAtStart, matResult,
                   assertFailed, oobRead>>
    /\ UNCHANGED maximumWidth

\* Number of runnables recalcWordWrap queues for the window.
WidthNofChunks == (NumWidthRows + s_linesPerRunnable - 1) \div s_linesPerRunnable

\* KDiff3App::recalcWordWrap with word wrap off: clears the cancel state and
\* calls recalcWordWrap(false, 0, visibleTextWidth) on the window, which
\* queues one runnable per chunk while the maximum text width is not known.
RecalcWordWrapNoWrap ==
    /\ widthPhase = "idle"
    /\ LET w == selectionWindow IN
       /\ m_bWordWrap' = [m_bWordWrap EXCEPT ![w] = FALSE]
       /\ IF m_maxTextWidth < 0
          THEN /\ m_diff3WrapLineVector' = [m_diff3WrapLineVector EXCEPT ![w] = <<>>]
               /\ m_wrapLineCacheList' = [m_wrapLineCacheList EXCEPT ![w] = <<>>]
               /\ s_runnables' =
                     s_runnables \o [j \in 1..WidthNofChunks |-> <<w, j - 1>>]
               /\ s_runnableCount' = s_runnableCount + WidthNofChunks
               /\ widthWorker' = [j \in WidthChunks |->
                     IF j < WidthNofChunks
                     THEN [NoWidthWorker EXCEPT !.pc = "queued"]
                     ELSE NoWidthWorker]
               /\ widthPhase' = "queue"
          ELSE UNCHANGED <<m_diff3WrapLineVector, m_wrapLineCacheList, s_runnables,
                           s_runnableCount, widthWorker, widthPhase>>
    /\ m_bWasCancelled' = FALSE
    /\ finishCount' = 0
    /\ UNCHANGED <<m_maxTextWidth, m_selection, s_maxNofRunnables, m_current>>
    /\ MaxWidthUnchanged

\* DiffTextWindow::startRunnables for the runnables of the window.
StartRunnablesNoWrap ==
    /\ widthPhase = "queue"
    /\ Len(s_runnables) > 0
    /\ s_maxNofRunnables' = Len(s_runnables)
    /\ m_current' = 0
    /\ widthWorker' = [j \in WidthChunks |->
            IF widthWorker[j].pc = "queued"
            THEN [widthWorker[j] EXCEPT !.pc = "pending"]
            ELSE widthWorker[j]]
    /\ s_runnables' = <<>>
    /\ widthPhase' = "running"
    /\ UNCHANGED <<m_maxTextWidth, m_selection, m_bWordWrap, m_diff3WrapLineVector,
                   m_wrapLineCacheList, s_runnableCount, m_bWasCancelled,
                   finishCount>>
    /\ MaxWidthUnchanged

\* ProgressDialog::cancel, delivered by the GUI event loop while the runnables
\* are under way.
CancelNoWrap ==
    /\ widthPhase = "running"
    /\ ~m_bWasCancelled
    /\ m_bWasCancelled' = TRUE
    /\ UNCHANGED <<m_maxTextWidth, m_selection, m_bWordWrap, m_diff3WrapLineVector,
                   m_wrapLineCacheList, s_runnables, s_runnableCount,
                   s_maxNofRunnables, m_current, finishCount, widthWorker,
                   widthPhase>>
    /\ MaxWidthUnchanged

\* The runnables a pool thread is executing.
WidthRunning == {j \in WidthChunks : widthWorker[j].pc \notin {"none", "queued", "pending", "done"}}
\* A pending runnable is taken by a free pool thread, the oldest first.
CanRunWidth(j) ==
    /\ widthWorker[j].pc = "pending"
    /\ Cardinality(WidthRunning) < MaxThreads
    /\ \A other \in WidthChunks : widthWorker[other].pc = "pending" => j <= other

\* What a step of runnable j leaves alone besides its own locals.
WidthWorkerFrame ==
    /\ UNCHANGED <<m_bWordWrap, m_diff3WrapLineVector, m_wrapLineCacheList,
                   s_runnables, s_maxNofRunnables, m_bWasCancelled, widthPhase>>
    /\ MaxWidthUnchanged

\* First and one-past-last row of chunk cacheListIdx.
WidthFirstD3LineIdx(cacheListIdx) == cacheListIdx * s_linesPerRunnable
WidthEndIdx(cacheListIdx) ==
    Min(WidthFirstD3LineIdx(cacheListIdx) + s_linesPerRunnable, NumWidthRows)

\* recalcWordWrapHelper(0, visibleTextWidth, cacheListIdx) without word wrap,
\* up to the row loop: polls the cancellation flag and loads the current
\* maximum text width.
HelperLoadMaxTextWidth(j) ==
    LET r == widthWorker[j] IN
    /\ CanRunWidth(j)
    /\ widthWorker' = [widthWorker EXCEPT ![j] =
          IF m_bWasCancelled
          THEN [r EXCEPT !.pc = "dec", !.sawCancel = TRUE]
          ELSE [r EXCEPT !.pc = "row", !.i = WidthFirstD3LineIdx(j),
                         !.maxTextWidth = m_maxTextWidth]]
    /\ UNCHANGED <<m_maxTextWidth, m_selection, s_runnableCount, m_current,
                   finishCount>>
    /\ WidthWorkerFrame

\* One iteration of the row loop: polls the cancellation flag, lays the row's
\* text out and keeps the larger width.
HelperMeasureWidth(j) ==
    LET r == widthWorker[j]
        width == IF maximumWidth[r.i] > r.maxTextWidth
                 THEN maximumWidth[r.i] ELSE r.maxTextWidth
    IN
    /\ r.pc = "row"
    /\ widthWorker' = [widthWorker EXCEPT ![j] =
          IF m_bWasCancelled
          THEN [r EXCEPT !.pc = "dec", !.sawCancel = TRUE]
          ELSE [r EXCEPT !.pc = IF r.i + 1 < WidthEndIdx(j) THEN "row" ELSE "store",
                         !.i = r.i + 1,
                         !.maxTextWidth = width]]
    /\ UNCHANGED <<m_maxTextWidth, m_selection, s_runnableCount, m_current,
                   finishCount>>
    /\ WidthWorkerFrame

\* Variant of the loop condition: the value is stored once.
StoresAgain_Never(prevMaxTextWidth, maxTextWidth) == FALSE

\* prevMaxTextWidth > maxTextWidth: the value replaced was larger than the
\* one stored, which is stored back.
StoresAgain(prevMaxTextWidth, maxTextWidth) == prevMaxTextWidth > maxTextWidth

\* prevMaxTextWidth = m_maxTextWidth.fetchAndStoreOrdered(maxTextWidth) and
\* the loop condition, with the loop body when it holds.
HelperFetchAndStore(j) ==
    LET r == widthWorker[j] IN
    /\ r.pc = "store"
    /\ m_maxTextWidth' = r.maxTextWidth
    /\ widthWorker' = [widthWorker EXCEPT ![j] =
          IF StoresAgain(m_maxTextWidth, r.maxTextWidth)
          THEN [r EXCEPT !.prevMaxTextWidth = m_maxTextWidth,
                         !.maxTextWidth = m_maxTextWidth]
          ELSE [r EXCEPT !.prevMaxTextWidth = m_maxTextWidth, !.pc = "selBegin"]]
    /\ UNCHANGED <<m_selection, s_runnableCount, m_current, finishCount>>
    /\ WidthWorkerFrame

\* if(!m_selection.isEmpty() && (!m_bWordWrap || wrapLineVectorSize > 0)) and
\* convertD3LCoordsToLineCoords of the selection's begin: the window does not
\* wrap, so the coordinates are returned as they are.
HelperSelectionBegin(j) ==
    LET r == widthWorker[j]
        w == selectionWindow
        c == convertD3LCoordsToLineCoords(w, beginLine(m_selection), beginPos(m_selection))
    IN
    /\ r.pc = "selBegin"
    /\ widthWorker' = [widthWorker EXCEPT ![j] =
          IF ~isEmpty(m_selection) /\ (~m_bWordWrap[w] \/ wrapLineVectorSize > 0)
          THEN [r EXCEPT !.pc = "selEnd", !.firstLine = c.line, !.firstPos = c.pos]
          ELSE [r EXCEPT !.pc = "dec"]]
    /\ UNCHANGED <<m_maxTextWidth, m_selection, s_runnableCount, m_current,
                   finishCount>>
    /\ WidthWorkerFrame

\* convertD3LCoordsToLineCoords of the selection's end.
HelperSelectionEnd(j) ==
    LET r == widthWorker[j]
        c == convertD3LCoordsToLineCoords(selectionWindow, endLine(m_selection),
                                          endPos(m_selection))
    IN
    /\ r.pc = "selEnd"
    /\ widthWorker' = [widthWorker EXCEPT ![j] =
          [r EXCEPT !.pc = "start", !.lastLine = c.line, !.lastPos = c.pos]]
    /\ UNCHANGED <<m_maxTextWidth, m_selection, s_runnableCount, m_current,
                   finishCount>>
    /\ WidthWorkerFrame

\* m_selection.start(firstLine, firstPos)
HelperSelectionStart(j) ==
    LET r == widthWorker[j] IN
    /\ r.pc = "start"
    /\ m_selection' = start(m_selection, r.firstLine, r.firstPos)
    /\ widthWorker' = [widthWorker EXCEPT ![j] = [r EXCEPT !.pc = "end"]]
    /\ UNCHANGED <<m_maxTextWidth, s_runnableCount, m_current, finishCount>>
    /\ WidthWorkerFrame

\* m_selection.end(lastLine, lastPos); the helper returns.
HelperSelectionSetEnd(j) ==
    LET r == widthWorker[j] IN
    /\ r.pc = "end"
    /\ m_selection' = end(m_selection, r.lastLine, r.lastPos)
    /\ widthWorker' = [widthWorker EXCEPT ![j] = [r EXCEPT !.pc = "dec"]]
    /\ UNCHANGED <<m_maxTextWidth, s_runnableCount, m_current, finishCount>>
    /\ WidthWorkerFrame

\* RecalcWordWrapRunnable::run after the helper returned:
\* int newValue = s_runnableCount.fetchAndAddOrdered(-1) - 1;
RunDecrementNoWrap(j) ==
    LET r == widthWorker[j] IN
    /\ r.pc = "dec"
    /\ s_runnableCount' = s_runnableCount - 1
    /\ widthWorker' = [widthWorker EXCEPT ![j] =
          [r EXCEPT !.pc = "set", !.newValue = s_runnableCount - 1]]
    /\ UNCHANGED <<m_maxTextWidth, m_selection, m_current, finishCount>>
    /\ WidthWorkerFrame

\* g_pProgressDialog->setCurrent(s_maxNofRunnables - s_runnableCount.loadRelaxed());
\* if(newValue == 0) Q_EMIT finishRecalcWordWrap(m_visibleTextWidth);
RunSetCurrentNoWrap(j) ==
    LET r == widthWorker[j] IN
    /\ r.pc = "set"
    /\ m_current' = s_maxNofRunnables - s_runnableCount
    /\ finishCount' = IF EmitsFinish(r) THEN finishCount + 1 ELSE finishCount
    /\ widthWorker' = [widthWorker EXCEPT ![j] = [r EXCEPT !.pc = "done"]]
    /\ UNCHANGED <<m_maxTextWidth, m_selection, s_runnableCount>>
    /\ WidthWorkerFrame

\* A step of the runnable of chunk j.
WidthWorkerStep(j) ==
    \/ HelperLoadMaxTextWidth(j)
    \/ HelperMeasureWidth(j)
    \/ HelperFetchAndStore(j)
    \/ HelperSelectionBegin(j)
    \/ HelperSelectionEnd(j)
    \/ HelperSelectionStart(j)
    \/ HelperSelectionSetEnd(j)
    \/ RunDecrementNoWrap(j)
    \/ RunSetCurrentNoWrap(j)

\* KDiff3App::slotFinishRecalcWordWrap: handles the queued notification once
\* the pool is idle.
SlotFinishNoWrap ==
    /\ widthPhase = "running"
    /\ finishCount > 0
    /\ \A j \in WidthChunks : widthWorker[j].pc \in {"none", "done"}
    /\ widthPhase' = "idle"
    /\ UNCHANGED <<m_maxTextWidth, m_selection, m_bWordWrap, m_diff3WrapLineVector,
                   m_wrapLineCacheList, s_runnables, s_runnableCount,
                   s_maxNofRunnables, m_bWasCancelled, m_current, finishCount,
                   widthWorker>>
    /\ MaxWidthUnchanged

\* The selections a window that does not wrap can hold when the recalculation
\* starts: none, or one drawn forwards or backwards over its rows.
WidthSelections ==
    {NoSelection} \cup
    {[firstLine |-> a, firstPos |-> 0, lastLine |-> b, lastPos |-> 1] :
        a \in 0..1, b \in 0..1}

\* The window after init(): the maximum text width is not known, the texts
\* have any widths, the selection is any the user made.
InitMaxWidth ==
    /\ m_maxTextWidth = -1
    /\ maximumWidth \in [WidthRows -> 0..MaxMaximumWidth]
    /\ widthWorker = [j \in WidthChunks |-> NoWidthWorker]
    /\ widthPhase = "idle"
    /\ lineLen = [w \in Windows |-> [r \in Rows |-> MaxTextLen]]
    /\ s_linesPerRunnable \in 1..MaxLinesPerRunnable
    /\ linesNeededForDisplay = [r \in Rows |-> InitialLinesNeeded]
    /\ sumLinesNeededForDisplay = [r \in Rows |-> 0]
    /\ m_bWordWrap = [w \in Windows |-> FALSE]
    /\ m_wrapLineCacheList = [w \in Windows |-> <<>>]
    /\ m_diff3WrapLineVector = [w \in Windows |-> <<>>]
    /\ s_runnables = <<>>
    /\ s_runnableCount = 0
    /\ s_maxNofRunnables = 0
    /\ runnable = [id \in RunnableIds |-> NoRunnable]
    /\ m_bWasCancelled = FALSE
    /\ m_current = 0
    /\ phase = "idle"
    /\ visibleTextWidth = 1
    /\ nextWin = 1
    /\ wrapLineVectorSize = 0
    /\ lndAtStart = [r \in Rows |-> InitialLinesNeeded]
    /\ finishCount = 0
    /\ matResult = [w \in Windows |-> NoMatResult]
    /\ assertFailed = FALSE
    /\ oobRead = FALSE
    /\ lineInFile = [w \in Windows |-> [r \in Rows |-> r]]
    /\ lineQuery = NoLineQuery
    /\ selectionWindow = 1
    /\ m_selection \in WidthSelections
    /\ m_bSelectionInProgress = FALSE
    /\ selectionSpace = "d3l"
    /\ selectionBefore = NoSelectionBefore
    /\ NoMergerState
    /\ NoScanState
    /\ NoLineRefState
    /\ NoAlignState
    /\ NoBestFirstLineState
    /\ NoProgressState

NextMaxWidth ==
    \/ RecalcWordWrapNoWrap
    \/ StartRunnablesNoWrap
    \/ CancelNoWrap
    \/ \E j \in WidthChunks : WidthWorkerStep(j)
    \/ SlotFinishNoWrap

SpecMaxWidth == InitMaxWidth /\ [][NextMaxWidth]_vars

\* The widest text of the window.
WidestText ==
    CHOOSE m \in 0..MaxMaximumWidth :
        /\ \E r \in WidthRows : maximumWidth[r] = m
        /\ \A r \in WidthRows : maximumWidth[r] <= m
\* All runnables of the window have finished and none saw a cancellation.
WidthMeasured ==
    /\ \E j \in WidthChunks : widthWorker[j].pc = "done"
    /\ \A j \in WidthChunks :
          /\ widthWorker[j].pc \in {"none", "done"}
          /\ ~widthWorker[j].sawCancel

\* C37: once all measuring runnables of a window that does not wrap have
\* finished and none was cancelled, m_maxTextWidth is the largest text width
\* of the window's rows, in whatever order the runnables loaded, measured and
\* stored.
C37_MaxTextWidthIsMaximum == WidthMeasured => m_maxTextWidth = WidestText

\* Two runnables were in the store loop at the same time, one of them stored
\* a value a second time, and the maximum is the result.
C37_Witness ==
    /\ WidthMeasured
    /\ m_maxTextWidth = WidestText
    /\ WidthNofChunks >= 2
    /\ \E j \in WidthChunks :
          /\ widthWorker[j].pc = "done"
          /\ widthWorker[j].prevMaxTextWidth >= 0
          /\ widthWorker[j].maxTextWidth > maximumWidth[WidthFirstD3LineIdx(j)]
          /\ widthWorker[j].maxTextWidth = WidestText

\* C34: a step of a measuring runnable leaves the selection, the WrapLineTable
\* and the cache slices of the other chunks as they are.
C34_WorkerLeavesSelection ==
    [][(\E j \in WidthChunks : WidthWorkerStep(j)) =>
          /\ m_selection' = m_selection
          /\ m_diff3WrapLineVector' = m_diff3WrapLineVector
          /\ m_wrapLineCacheList' = m_wrapLineCacheList]_vars

====
